---- MODULE Spec2Model ----
(***************************************************************************)
(* Verification model of the churn-prevention platform (RecoEngine        *)
(* feature store, churn scorer, workflows, recommendations) and of the    *)
(* QuickMart storefront coupon API.                                        *)
(*                                                                         *)
(* Probabilities are integers in hundredths (0.95 is 95).  Timestamps are  *)
(* integers read from a logical clock; datetime.utcnow().isoformat()       *)
(* strings compare in the same order as the instants they denote.          *)
(***************************************************************************)
EXTENDS Integers, Sequences, FiniteSets, TLC

\* ---------------------------------------------------------------- bounds
\* number of ingest requests in one behaviour of the feature-store model
MaxIngests == 3

\* ------------------------------------------------------- feature store
Users == {"u1"}

\* main.py:380, store_helper.py:28, tools.py:56
FEATURE_TYPES == <<"profile", "behavior", "transactional", "engagement", "support", "realtime">>

FamilySet == {FEATURE_TYPES[i] : i \in 1..Len(FEATURE_TYPES)}

\* families the modelled clients post to (/ingest/behavior, /ingest/realtime)
IngestFamilies == {"behavior", "realtime"}

\* two fields of each family's pydantic model; the families' field names are disjoint
FieldsOf(f) ==
    CASE f = "profile" -> {"acc_age_days", "member_dur"}
      [] f = "behavior" -> {"sess_7d", "sess_30d"}
      [] f = "transactional" -> {"orders_6m", "last_hv_purch"}
      [] f = "engagement" -> {"push_open_rate", "email_ctr"}
      [] f = "support" -> {"tickets_90d", "refund_req"}
      [] f = "realtime" -> {"curr_sess_clk", "abandon_count"}

FeatureValues == {1, 2}

\* the reserved metadata bins
MetaKeys == {"timestamp", "feature_type"}

\* a feature map: a function from a set of field names to values
EmptyMap == [k \in {} |-> 0]

\* features.model_dump(exclude_unset=True) minus user_id: the requests of the model
\* set at most one field
FeatureDicts(f) ==
    UNION {[S -> FeatureValues] : S \in {T \in SUBSET FieldsOf(f) : Cardinality(T) <= 1}}

\* {**a, **b}: b overrides a
DictMerge(a, b) == [k \in DOMAIN a \cup DOMAIN b |-> IF k \in DOMAIN b THEN b[k] ELSE a[k]]

\* {k: v for k, v in bins.items() if k not in ["timestamp", "feature_type"]}
StripMeta(bins) == [k \in DOMAIN bins \ MetaKeys |-> bins[k]]

VARIABLES
    USE_AGENT_FLOW,       \* main.py:21
    USE_LANGGRAPH_STORE,  \* main.py:23
    client,               \* main.py:170  TRUE: a connected client, FALSE: None
    aerospike_bins,       \* set user_features, key user_id + "_" + feature_type: the record's bins
    store_items,          \* Store API namespace ("user_features", feature_type), key user_id: the item's value
    now,                  \* the clock behind datetime.utcnow()
    nIngest,              \* ingest requests made so far
    ingested,             \* per user: the last two successful ingests, oldest first
    lastIngest,           \* the last ingest request and its outcome
    lastRetrieve          \* the last retrieve_all_features call and its result

fsVars == <<USE_AGENT_FLOW, USE_LANGGRAPH_STORE, client, aerospike_bins, store_items,
            now, nIngest, ingested, lastIngest, lastRetrieve>>

VARIABLES
    model_proba,          \* model.predict_proba(feature_vector)[0][1], in hundredths
    predictions           \* abandon_count |-> what predict_churn returned for it, or NoPrediction

churnVars == <<model_proba, predictions>>

VARIABLES
    tools_client,         \* tools.py:16 _aerospike_client  TRUE: configured, FALSE: None
    state,                \* the AgentState of the current (or last) prediction run
    node,                 \* the node the prediction graph runs next; "idle" between runs
    executed,             \* the nodes the current run has executed, in order
    caller,               \* who awaits the run: "endpoint" (POST /predict) or "direct"
    nRuns,                \* POST /predict requests and prediction runs started so far
    user_nudges,          \* set user_nudges: ids of the stored nudge records
    coupons,              \* set coupons: nudge ids whose coupon record is stored
    agent_user_coupons,   \* set user_coupons of the tools' namespace: nudge ids whose link is stored
    custom_user_messages, \* set custom_user_messages: ids of the stored messages
    nudge_reports,        \* the nudges reported as executed: send_nudge_tool's result,
                          \* execute_nudges' executed_nudges
    response              \* the last answer of POST /predict/{user_id}

pwVars == <<tools_client, state, node, executed, caller, nRuns, user_nudges, coupons,
            agent_user_coupons, custom_user_messages, nudge_reports, response>>

VARIABLES
    user_coupons,         \* storefront set user_coupons: the UserCoupon records
    coupon_usage,         \* storefront set coupons: coupon_id |-> usage_count
    usage_limit,          \* storefront set coupons: coupon_id |-> usage_limit, None: no limit
    appliers,             \* the POST /api/coupons/apply requests and where each one stands
    nApplies              \* apply requests begun so far

couponVars == <<user_coupons, coupon_usage, usage_limit, appliers, nApplies>>

VARIABLES
    reco_store,           \* main.py reco_store  TRUE: the AerospikeStore, FALSE: None
    products_indexed,     \* main.py products_indexed
    product_index,        \* Store namespace ("products",): the ids of the indexed products
    reco_state,           \* the RecommendationState of the current (or last) run
    reco_node,            \* the node the recommendations graph runs next; "idle" between runs
    reco_executed,        \* the nodes the current run has executed, in order
    reco_input,           \* the cart of the request that started the run
    nReco,                \* POST /recommendations/{user_id} requests so far
    user_recommendations, \* Store namespace ("user_recommendations",): user_id |-> cached entry
    reco_response,        \* the last answer of POST or GET /recommendations/{user_id}
    indexer_ran,          \* POST /recommendations/index has run index_products_in_store
    last_generated        \* user_id |-> the list the last POST answered with 200, None once
                          \* a later run for the user has started

recoVars == <<reco_store, products_indexed, product_index, reco_state, reco_node,
              reco_executed, reco_input, nReco, user_recommendations, reco_response,
              indexer_ran, last_generated>>

VARIABLES
    cart_phase,           \* on_cart_load: "idle", "waiting" (in wait_for) or "answered"
    prediction_task,      \* the task of create_task: "none", "pending", "finished", "cancelled"
    task_result,          \* what trigger_churn_prediction returned: prediction data or None
    waited,               \* seconds spent in asyncio.wait_for
    cart_context,         \* realtime cart contexts ingested for the user so far
    cart_response,        \* the last answer of POST /api/cart/load
    nLoads                \* POST /api/cart/load requests so far

cartVars == <<cart_phase, prediction_task, task_result, waited, cart_context, cart_response,
              nLoads>>

VARIABLES
    ingester,             \* request |-> where its store_features_in_aerospike call stands
    written,              \* <<family, field, value>> of every feature an ingest request carried
    completed             \* <<family, field>> of every feature whose put succeeded

ingVars == <<ingester, written, completed>>

VARIABLES
    wf_run,       \* the graph.ainvoke in progress: workflow, thread, saver, node, phase
    checkpoints,  \* the snapshots in the KV store: <<thread_id, checkpoint_ns, step>>
    wf_result,    \* what the last run_agent_prediction / run_recommendations_workflow returned
    nWorkflows    \* workflow calls so far

rtVars == <<wf_run, checkpoints, wf_result, nWorkflows>>

VARIABLES
    rule_call,     \* the last call of find_matching_rule: its arguments
    rule_matched   \* what it returned: None or the rule

ruleVars == <<rule_call, rule_matched>>

VARIABLES
    rank_product,   \* a similar product as rank_and_discount_node sees it, with the cart's
                    \* categories and brands
    rank_reason     \* the recommendation_reason given to it; "" before the node ran

rankVars == <<rank_product, rank_reason>>

VARIABLES
    current_churn,  \* the shared NudgeEngine's _current_churn_reasons and
                    \* _current_churn_probability; None before the first trigger_nudges
    nudge_reqs      \* per concurrent trigger_nudges call: its arguments, its position and the
                    \* churn context each of its remote requests was made with

engineVars == <<current_churn, nudge_reqs>>

VARIABLES
    logout_req,     \* per session of the user: the position of its POST /logout, whether it
                    \* found an abandoned cart, the count it sends and the answer to its ingest
    abandon_start   \* the stored abandon_count before the first logout

logoutVars == <<logout_req, abandon_start>>

vars == <<fsVars, churnVars, pwVars, couponVars, recoVars, cartVars, ingVars, rtVars, ruleVars, rankVars, engineVars, logoutVars>>

notCart == <<fsVars, churnVars, pwVars, couponVars, recoVars, ingVars, rtVars, ruleVars, rankVars, engineVars, logoutVars>>
\* a concurrent ingest works on the feature-store state
notIng == <<churnVars, pwVars, couponVars, recoVars, cartVars, rtVars, ruleVars, rankVars, engineVars, logoutVars>>
notRuntime == <<fsVars, churnVars, pwVars, couponVars, recoVars, cartVars, ingVars, ruleVars, rankVars, engineVars, logoutVars>>
notRule == <<fsVars, churnVars, pwVars, couponVars, recoVars, cartVars, ingVars, rtVars, rankVars, engineVars, logoutVars>>
notRank == <<fsVars, churnVars, pwVars, couponVars, recoVars, cartVars, ingVars, rtVars, ruleVars, engineVars, logoutVars>>
notEngine == <<fsVars, churnVars, pwVars, couponVars, recoVars, cartVars, ingVars, rtVars, ruleVars, rankVars, logoutVars>>
\* a logout works on the feature-store state
notLogout == <<churnVars, pwVars, couponVars, recoVars, cartVars, ingVars, rtVars, ruleVars, rankVars, engineVars>>
notFS == <<churnVars, pwVars, couponVars, recoVars, cartVars, ingVars, rtVars, ruleVars, rankVars, engineVars, logoutVars>>
notChurn == <<fsVars, pwVars, couponVars, recoVars, cartVars, ingVars, rtVars, ruleVars, rankVars, engineVars, logoutVars>>
notCoupon == <<fsVars, churnVars, pwVars, recoVars, cartVars, ingVars, rtVars, ruleVars, rankVars, engineVars, logoutVars>>
notReco == <<fsVars, churnVars, pwVars, couponVars, cartVars, ingVars, rtVars, ruleVars, rankVars, engineVars, logoutVars>>

\* the feature-store state a prediction request leaves alone
fsRest == <<USE_AGENT_FLOW, USE_LANGGRAPH_STORE, aerospike_bins, store_items,
            now, nIngest, ingested, lastIngest, lastRetrieve>>

\* ------------------------------------------------- feature store actions
NoCall == [status |-> 0]

UseStoreApi == USE_AGENT_FLOW /\ USE_LANGGRAPH_STORE

FSIdle ==
    /\ USE_AGENT_FLOW = FALSE
    /\ USE_LANGGRAPH_STORE = FALSE
    /\ client = TRUE
    /\ aerospike_bins = [u \in Users, f \in FamilySet |-> EmptyMap]
    /\ store_items = [u \in Users, f \in FamilySet |-> EmptyMap]
    /\ now = 0
    /\ nIngest = 0
    /\ ingested = [u \in Users |-> <<>>]
    /\ lastIngest = NoCall
    /\ lastRetrieve = NoCall

FSInit ==
    /\ USE_AGENT_FLOW \in BOOLEAN
    /\ USE_LANGGRAPH_STORE \in BOOLEAN
    /\ client = TRUE
    /\ aerospike_bins = [u \in Users, f \in FamilySet |-> EmptyMap]
    /\ store_items = [u \in Users, f \in FamilySet |-> EmptyMap]
    /\ now = 0
    /\ nIngest = 0
    /\ ingested = [u \in Users |-> <<>>]
    /\ lastIngest = NoCall
    /\ lastRetrieve = NoCall

\* aerospike client.put(key, bins) with the default exists policy: the named bins
\* are created or updated, the record's other bins stay
AerospikePut(record, bins) == DictMerge(record, bins)

\* AerospikeStore.put(namespace, key, value): the item's value is replaced
StorePut(item, value) == value

MergedFeaturesDropExisting(existing_features, features) == features

\* merged_features = {**existing_features, **features}
MergedFeatures(existing_features, features) == DictMerge(existing_features, features)

WithMetadataTimestampOnly(merged_features, ts, feature_type) ==
    DictMerge(merged_features, [timestamp |-> ts])

\* the value written: merged features plus timestamp and feature_type
WithMetadata(merged_features, ts, feature_type) ==
    DictMerge(merged_features, [timestamp |-> ts, feature_type |-> feature_type])

Remember(u, f, features, ts) ==
    LET entry == [family |-> f, features |-> features, timestamp |-> ts]
        old == ingested[u]
    IN  ingested' = [ingested EXCEPT ![u] =
            IF Len(old) = 0 THEN <<entry>> ELSE <<old[Len(old)], entry>>]

\* store_features_in_aerospike, Store API branch (calls store_user_features)
IngestViaStore(u, f, features, getOk, putOk) ==
    /\ UseStoreApi
    /\ UNCHANGED notFS
    /\ nIngest < MaxIngests
    /\ nIngest' = nIngest + 1
    /\ lastRetrieve' = NoCall
    /\ UNCHANGED <<USE_AGENT_FLOW, USE_LANGGRAPH_STORE, client, aerospike_bins>>
    /\ IF getOk /\ putOk
       THEN LET existing_item == store_items[u, f]
                existing_features == StripMeta(existing_item)
                merged_features == MergedFeatures(existing_features, features)
                ts == now + 1
            IN  /\ store_items' = [store_items EXCEPT
                       ![u, f] = StorePut(existing_item, WithMetadata(merged_features, ts, f))]
                /\ now' = ts
                /\ Remember(u, f, features, ts)
                /\ lastIngest' = [status |-> 200, user |-> u, family |-> f, features |-> features,
                                  readFailed |-> FALSE, before |-> DOMAIN existing_item]
       ELSE \* store.get or store.put raised: HTTP 500, nothing written
            /\ UNCHANGED <<store_items, now, ingested>>
            /\ lastIngest' = [status |-> 500]

\* store_features_in_aerospike, direct client branch
IngestDirect(u, f, features, connectOk, getOk, putOk) ==
    /\ ~UseStoreApi
    /\ UNCHANGED notFS
    /\ nIngest < MaxIngests
    /\ nIngest' = nIngest + 1
    /\ lastRetrieve' = NoCall
    /\ UNCHANGED <<USE_AGENT_FLOW, USE_LANGGRAPH_STORE, store_items>>
    /\ IF ~client /\ ~connectOk
       THEN \* connect_aerospike() failed: HTTP 503
            /\ UNCHANGED <<client, aerospike_bins, now, ingested>>
            /\ lastIngest' = [status |-> 503]
       ELSE LET bins == aerospike_bins[u, f]
                \* RecordNotFound and any other exception both leave existing_features = {}
                existing_features == IF getOk THEN StripMeta(bins) ELSE EmptyMap
                merged_features == MergedFeatures(existing_features, features)
                ts == now + 1
            IN  IF putOk
                THEN /\ aerospike_bins' = [aerospike_bins EXCEPT
                            ![u, f] = AerospikePut(bins, WithMetadata(merged_features, ts, f))]
                     /\ client' = TRUE
                     /\ now' = ts
                     /\ Remember(u, f, features, ts)
                     /\ lastIngest' = [status |-> 200, user |-> u, family |-> f,
                                       features |-> features, readFailed |-> ~getOk,
                                       before |-> DOMAIN bins]
                ELSE \* client.put raised: client = None, HTTP 500
                     /\ client' = FALSE
                     /\ UNCHANGED <<aerospike_bins, now, ingested>>
                     /\ lastIngest' = [status |-> 500]

\* POST /ingest/{family}
Ingest ==
    \E u \in Users, f \in IngestFamilies :
      \E features \in FeatureDicts(f) :
        \/ \E getOk, putOk \in BOOLEAN : IngestViaStore(u, f, features, getOk, putOk)
        \/ \E connectOk, getOk, putOk \in BOOLEAN :
              IngestDirect(u, f, features, connectOk, getOk, putOk)

FresherDirectOlder(ts, feature_freshness) == feature_freshness = 0 \/ ts < feature_freshness

\* main.py:394  not feature_freshness or bins.get("timestamp", "") > feature_freshness
FresherDirect(ts, feature_freshness) == feature_freshness = 0 \/ ts > feature_freshness

\* store_helper.py:174  not feature_freshness or item_timestamp > feature_freshness
FresherStore(ts, feature_freshness) == feature_freshness = 0 \/ ts > feature_freshness

\* the loop over feature_types of retrieve_all_features (direct client): families
\* i..upto are read; acc is (all_features, feature_freshness), 0 standing for None
RECURSIVE DirectLoop(_, _, _, _)
DirectLoop(u, i, upto, acc) ==
    IF i > upto THEN acc
    ELSE LET bins == aerospike_bins[u, FEATURE_TYPES[i]]
         IN  IF bins = EmptyMap
             THEN DirectLoop(u, i + 1, upto, acc)
             ELSE DirectLoop(u, i + 1, upto,
                    [all_features |-> DictMerge(acc.all_features, StripMeta(bins)),
                     feature_freshness |->
                        IF FresherDirect(bins["timestamp"], acc.feature_freshness)
                        THEN bins["timestamp"] ELSE acc.feature_freshness])

\* the loop over FEATURE_TYPES of retrieve_all_user_features (Store API)
RECURSIVE StoreLoop(_, _, _)
StoreLoop(u, i, acc) ==
    IF i > Len(FEATURE_TYPES) THEN acc
    ELSE LET value == store_items[u, FEATURE_TYPES[i]]
         IN  IF value = EmptyMap
             THEN StoreLoop(u, i + 1, acc)
             ELSE StoreLoop(u, i + 1,
                    [all_features |-> DictMerge(acc.all_features, StripMeta(value)),
                     feature_freshness |->
                        IF FresherStore(value["timestamp"], acc.feature_freshness)
                        THEN value["timestamp"] ELSE acc.feature_freshness])

LoopStart == [all_features |-> EmptyMap, feature_freshness |-> 0]

\* feature_freshness or datetime.utcnow().isoformat()
FreshnessOrNow(feature_freshness) == IF feature_freshness = 0 THEN now ELSE feature_freshness

\* retrieve_all_features, Store API branch (calls retrieve_all_user_features)
RetrieveViaStore(u, getOk) ==
    /\ UseStoreApi
    /\ UNCHANGED notFS
    /\ UNCHANGED <<USE_AGENT_FLOW, USE_LANGGRAPH_STORE, client, aerospike_bins, store_items,
                   now, nIngest, ingested, lastIngest>>
    /\ IF getOk
       THEN LET r == StoreLoop(u, 1, LoopStart)
            IN  lastRetrieve' = [status |-> 200, user |-> u, features |-> r.all_features,
                                 freshness |-> FreshnessOrNow(r.feature_freshness),
                                 complete |-> TRUE]
       ELSE \* a store.get raised: HTTP 500
            lastRetrieve' = [status |-> 500]

\* retrieve_all_features, direct client branch.  The first failing client.get sets
\* client = None, so every later read of the loop fails too: families before failAt
\* are read, failAt = Len(FEATURE_TYPES) + 1 means no read failed
RetrieveDirect(u, connectOk, failAt) ==
    /\ ~UseStoreApi
    /\ UNCHANGED notFS
    /\ UNCHANGED <<USE_AGENT_FLOW, USE_LANGGRAPH_STORE, aerospike_bins, store_items,
                   now, nIngest, ingested, lastIngest>>
    /\ IF ~client /\ ~connectOk
       THEN /\ UNCHANGED client
            /\ lastRetrieve' = [status |-> 503]
       ELSE LET r == DirectLoop(u, 1, failAt - 1, LoopStart)
            IN  /\ client' = (failAt > Len(FEATURE_TYPES))
                /\ lastRetrieve' = [status |-> 200, user |-> u, features |-> r.all_features,
                                    freshness |-> FreshnessOrNow(r.feature_freshness),
                                    complete |-> failAt > Len(FEATURE_TYPES)]

Retrieve ==
    \E u \in Users :
        \/ \E getOk \in BOOLEAN : RetrieveViaStore(u, getOk)
        \/ \E connectOk \in BOOLEAN, failAt \in 1..(Len(FEATURE_TYPES) + 1) :
              RetrieveDirect(u, connectOk, failAt)

FeatureStoreNext == Ingest \/ Retrieve

\* the clock values one behaviour passes through while no request is being served
MaxClock == 2

\* time passes between two requests: datetime.utcnow() moves on
ClockTick ==
    /\ now < MaxClock
    /\ now' = now + 1
    /\ UNCHANGED <<USE_AGENT_FLOW, USE_LANGGRAPH_STORE, client, aerospike_bins, store_items,
                   nIngest, ingested, lastIngest, lastRetrieve>>
    /\ UNCHANGED notFS

RetrievalNext == Ingest \/ Retrieve \/ ClockTick


\* --------------------------------------------------------- churn scorer
\* largest abandon_count the modelled feature maps carry
MaxAbandon == 3

\* model_predictor.py:123, 125, 127, 130 and 135, 137, 139, in hundredths
Boost1 == 10
Boost2 == 15
Boost3 == 20
ProbCap == 95
CriticalFrom == 80
HighFrom == 60
MediumFrom == 40

Min(a, b) == IF a <= b THEN a ELSE b

\* stands for a feature map that has no abandon_count key
Absent == -1

AbandonCounts == {Absent} \cup (0..MaxAbandon)

\* features.get('abandon_count', 0)
AbandonCountOf(n) == IF n = Absent THEN 0 ELSE n

\* model_predictor.py:117-132: the boost and its cap apply only when abandon_count > 0
BoostedProbability(p, n) ==
    LET abandon_count == AbandonCountOf(n)
    IN  IF abandon_count > 0
        THEN LET boost == IF abandon_count = 1 THEN Boost1
                          ELSE IF abandon_count = 2 THEN Boost2
                          ELSE Boost3
             IN  Min(ProbCap, p + boost)
        ELSE p

\* model_predictor.py:134-142
RiskSegment(churn_probability) ==
    IF churn_probability >= CriticalFrom THEN "critical"
    ELSE IF churn_probability >= HighFrom THEN "high"
    ELSE IF churn_probability >= MediumFrom THEN "medium"
    ELSE "low"

\* ChurnPredictor.predict_churn for a feature map whose model probability is p and
\* whose abandon_count is n
predict_churn(p, n) ==
    LET churn_probability == BoostedProbability(p, n)
    IN  [churn_probability |-> churn_probability,
         risk_segment |-> RiskSegment(churn_probability)]

NoPrediction == [churn_probability |-> -1, risk_segment |-> "none"]

ChurnIdle ==
    /\ model_proba = 0
    /\ predictions = [n \in AbandonCounts |-> NoPrediction]

\* the model may return any probability in [0, 1] for the feature vector
ChurnInit ==
    /\ model_proba \in 0..100
    /\ predictions = [n \in AbandonCounts |-> NoPrediction]

\* a predict_churn call on the feature map with abandon_count n
PredictChurn ==
    \E n \in AbandonCounts :
        /\ predictions[n] = NoPrediction
        /\ predictions' = [predictions EXCEPT ![n] = predict_churn(model_proba, n)]
        /\ UNCHANGED model_proba
        /\ UNCHANGED notChurn

ChurnNext == PredictChurn

\* ------------------------------------------------------ storefront coupons
\* assign-nudge-coupon requests in one behaviour
MaxAssigns == 3

\* apply requests in one behaviour
MaxApplies == 2

\* coupons the nudge engine selects (nudge_engine.py:381-432); a coupon's code stands
\* for its coupon_id
CouponIds == {"WELCOME_BACK20", "SAVE20"}

\* UserCouponStatus
AVAILABLE == "available"
USED == "used"

\* the UserCoupon built by assign_nudge_coupon: user_coupon_id is a fresh uc_<uuid>,
\* here the number of the record
NewUserCoupon(uc, u, c) ==
    [user_coupon_id |-> Cardinality(uc) + 1, user_id |-> u, coupon_id |-> c,
     status |-> AVAILABLE]

\* the user_coupons set after assign_nudge_coupon(user_id, coupon_id, ...): the record
\* is put under its new id with no look-up of existing records; database_manager.put
\* returns False on a storage error and nothing is written
AfterAssign(uc, u, c, putOk) == IF putOk THEN uc \cup {NewUserCoupon(uc, u, c)} ELSE uc

\* the requests that may be in flight together
Appliers == {"a1", "a2"}

\* the fields of the Coupon model (models/coupon.py:50-66); pydantic ignores other
\* keyword arguments and raises AttributeError on reading an undeclared field
CouponFields ==
    {"coupon_id", "code", "name", "description", "discount_type", "discount_value",
     "min_order_val", "max_discount", "usage_limit", "usage_count", "valid_from",
     "valid_until", "is_active", "applicable_categories", "applicable_products",
     "created_at"}

\* the usage limits coupons are created with: none, or a number (the admin loader's
\* default is 1, admin.py:228)
UsageLimits == {<<>>, <<1>>, <<2>>}

NoApply == [pc |-> "idle", user |-> "", code |-> "", usage_count |-> 0, status |-> 0]

CouponIdle ==
    /\ user_coupons = {}
    /\ coupon_usage = [c \in CouponIds |-> 0]
    /\ usage_limit = [c \in CouponIds |-> <<1>>]
    /\ appliers = [r \in Appliers |-> NoApply]
    /\ nApplies = 0

\* the storefront with its coupons loaded: usage_count 0, a limit or none
CouponStart ==
    /\ user_coupons = {}
    /\ coupon_usage = [c \in CouponIds |-> 0]
    /\ usage_limit \in [CouponIds -> UsageLimits]
    /\ appliers = [r \in Appliers |-> NoApply]
    /\ nApplies = 0

\* POST /api/coupons/internal/assign-nudge-coupon
AssignNudgeCoupon ==
    \E u \in Users, c \in CouponIds, putOk \in BOOLEAN :
        /\ Cardinality(user_coupons) < MaxAssigns
        /\ user_coupons' = AfterAssign(user_coupons, u, c, putOk)
        /\ UNCHANGED <<coupon_usage, usage_limit, appliers, nApplies>>
        /\ UNCHANGED notCoupon

validate_coupon_reading_min_order_val(c, lapsed, belowMinimum) ==
    IF lapsed THEN "invalid"
    ELSE IF usage_limit[c] # <<>> /\ usage_limit[c][1] # 0
            /\ coupon_usage[c] >= usage_limit[c][1] THEN "invalid"
    ELSE IF "min_order_val" \notin CouponFields THEN "raises"
    ELSE IF belowMinimum THEN "invalid"
    ELSE "valid"

\* validate_coupon for a coupon found by its code.  lapsed: not active or outside its
\* validity period; belowMinimum: order_total under the minimum order value.  The
\* minimum is read as coupon.minimum_order_value; reading a field the model does not
\* declare raises, which the handler answers with 500
validate_coupon(c, lapsed, belowMinimum) ==
    IF lapsed THEN "invalid"
    ELSE IF usage_limit[c] # <<>> /\ usage_limit[c][1] # 0
            /\ coupon_usage[c] >= usage_limit[c][1] THEN "invalid"
    ELSE IF "minimum_order_value" \notin CouponFields THEN "raises"
    ELSE IF belowMinimum THEN "invalid"
    ELSE "valid"

\* POST /api/coupons/apply arrives
BeginApply(r) ==
    \E u \in Users, c \in CouponIds :
        /\ appliers[r].pc = "idle"
        /\ nApplies < MaxApplies
        /\ nApplies' = nApplies + 1
        /\ appliers' = [appliers EXCEPT ![r] = [pc |-> "validate", user |-> u, code |-> c,
                                                usage_count |-> 0, status |-> 0]]
        /\ UNCHANGED <<user_coupons, coupon_usage, usage_limit>>
        /\ UNCHANGED notCoupon

\* apply_coupon from one await to the next: validate_coupon (400 when not valid, 500
\* when it raises), the scan that finds the coupon, the put of usage_count + 1, the
\* scan of user_coupons that marks the first available one as used
ApplyStep(r) ==
    LET a == appliers[r]
        c == a.code
    IN  /\ a.pc \in {"validate", "find", "put", "mark"}
        /\ UNCHANGED <<usage_limit, nApplies>>
        /\ UNCHANGED notCoupon
        /\ IF a.pc = "validate"
           THEN \E lapsed, belowMinimum \in BOOLEAN :
                   LET validation == validate_coupon(c, lapsed, belowMinimum)
                   IN  /\ appliers' =
                             [appliers EXCEPT ![r] =
                                 IF validation = "valid" THEN [a EXCEPT !.pc = "find"]
                                 ELSE [a EXCEPT !.pc = "idle",
                                                !.status = IF validation = "invalid" THEN 400
                                                           ELSE 500]]
                       /\ UNCHANGED <<user_coupons, coupon_usage>>
           ELSE IF a.pc = "find"
           THEN /\ appliers' = [appliers EXCEPT ![r] = [a EXCEPT !.pc = "put",
                                                          !.usage_count = coupon_usage[c]]]
                /\ UNCHANGED <<user_coupons, coupon_usage>>
           ELSE IF a.pc = "put"
           THEN \E putOk \in BOOLEAN :
                   /\ coupon_usage' = IF putOk
                                      THEN [coupon_usage EXCEPT ![c] = a.usage_count + 1]
                                      ELSE coupon_usage
                   /\ appliers' = [appliers EXCEPT ![r] = [a EXCEPT !.pc = "mark"]]
                   /\ UNCHANGED user_coupons
           ELSE LET matching == {uc \in user_coupons :
                                    uc.user_id = a.user /\ uc.coupon_id = c
                                    /\ uc.status = AVAILABLE}
                IN  /\ appliers' = [appliers EXCEPT ![r] = [a EXCEPT !.pc = "idle",
                                                               !.status = 200]]
                    /\ UNCHANGED coupon_usage
                    /\ IF matching = {}
                       THEN UNCHANGED user_coupons
                       ELSE \E uc \in matching :
                               user_coupons' = (user_coupons \ {uc})
                                                  \cup {[uc EXCEPT !.status = USED]}

CouponNext ==
    \/ AssignNudgeCoupon
    \/ \E r \in Appliers : BeginApply(r)
    \/ \E r \in Appliers : ApplyStep(r)

\* ------------------------------------------------ prediction workflow
\* POST /predict requests and prediction runs in one behaviour
MaxRuns == 2

\* model probabilities the prediction model starts from, in hundredths
ProbaSamples == {10, 25, 50, 70, 96}

\* Python None, and a value that is not None
None == <<>>
Some(x) == <<x>>

\* what the SHAP explanation singles out; decide_nudge_tool reads it (tools.py:145-156)
ChurnReasons == {"CART_ABANDONMENT", "SUPPORT_ISSUES", "OTHER"}

\* tools.py:139, 237-247, in hundredths and percent
NudgeThreshold == 30
CouponThreshold == 60
TopCouponThreshold == 80
TopDiscount == 25
MidDiscount == 15
BaseDiscount == 10

\* create_initial_state; messages, feature_freshness and intermediate are left out,
\* no routing reads them; a None or empty user_features is EmptyMap
InitialState ==
    [user_features |-> EmptyMap, churn_prediction |-> None, nudge_decision |-> None,
     generated_nudge |-> None, current_step |-> "start", error |-> None,
     completed |-> FALSE]

NoResponse ==
    [status |-> 0, flow |-> "none", no_features |-> FALSE, store_up |-> FALSE,
     message_failed |-> FALSE]

\* the user has no stored features in any family
NoStoredFeatures(u) == \A f \in FamilySet : aerospike_bins[u, f] = EmptyMap

\* features.get('abandon_count', 0) as the scorer sees it
AbandonOf(features) ==
    IF "abandon_count" \in DOMAIN features THEN features["abandon_count"] ELSE Absent

\* retrieve_user_features_tool: the loop over feature_types; a failing read is logged
\* and skipped (family number failAt fails, Len(FEATURE_TYPES) + 1: none does)
RECURSIVE ToolLoop(_, _, _, _)
ToolLoop(u, i, failAt, all_features) ==
    IF i > Len(FEATURE_TYPES) THEN all_features
    ELSE LET bins == aerospike_bins[u, FEATURE_TYPES[i]]
         IN  IF i = failAt \/ bins = EmptyMap
             THEN ToolLoop(u, i + 1, failAt, all_features)
             ELSE ToolLoop(u, i + 1, failAt, DictMerge(all_features, StripMeta(bins)))

retrieve_user_features_tool(u, failAt) ==
    IF ~tools_client THEN EmptyMap ELSE ToolLoop(u, 1, failAt, EmptyMap)

\* decide_nudge_tool
ShouldNudge(churn_probability, risk_segment) ==
    \/ churn_probability > NudgeThreshold
    \/ risk_segment \in {"medium_risk", "high_risk", "critical"}

NudgeType(churn_reason, risk_segment) ==
    IF churn_reason = "CART_ABANDONMENT" THEN "cart_recovery"
    ELSE IF churn_reason = "SUPPORT_ISSUES" THEN "support_followup"
    ELSE IF risk_segment = "critical" THEN "retention_offer"
    ELSE IF risk_segment = "high_risk" THEN "win_back"
    ELSE "general_engagement"

decide_nudge_tool(prediction) ==
    [should_nudge |-> ShouldNudge(prediction.churn_probability, prediction.risk_segment),
     nudge_type |-> NudgeType(prediction.churn_reasons, prediction.risk_segment)]

\* generate_nudge_message_tool: the coupon and the channel; the message text is left out
generate_nudge_message_tool(nudge_type, churn_probability) ==
    [channel |-> IF nudge_type \in {"cart_recovery", "retention_offer"} THEN "push_notification"
                 ELSE IF nudge_type = "support_followup" THEN "email"
                 ELSE "in_app",
     coupon_code |->
        IF \/ churn_probability > CouponThreshold
           \/ nudge_type \in {"retention_offer", "win_back", "cart_recovery"}
        THEN IF churn_probability > TopCouponThreshold THEN Some(TopDiscount)
             ELSE IF churn_probability > CouponThreshold THEN Some(MidDiscount)
             ELSE Some(BaseDiscount)
        ELSE None]

\* routing functions, graph.py:264-295
should_continue_after_features(st) ==
    IF st.error # None THEN "error"
    ELSE IF st.user_features = EmptyMap THEN "error"
    ELSE "predict"

should_continue_after_prediction(st) == IF st.error # None THEN "error" ELSE "decide"

should_continue_after_decision_always_generate(st) ==
    IF st.error # None THEN "error" ELSE "generate"

should_continue_after_decision(st) ==
    IF st.error # None THEN "error"
    ELSE IF st.nudge_decision = None \/ ~st.nudge_decision[1].should_nudge THEN "end"
    ELSE "generate"

should_continue_after_generation(st) == IF st.error # None THEN "error" ELSE "send"

\* the edge maps of create_churn_prediction_graph
AfterFeatures(route) == IF route = "predict" THEN "predict_churn" ELSE "error_handler"
AfterPrediction(route) == IF route = "decide" THEN "decide_nudge" ELSE "error_handler"
AfterDecision(route) ==
    IF route = "generate" THEN "generate_nudge"
    ELSE IF route = "end" THEN "END"
    ELSE "error_handler"
AfterGeneration(route) == IF route = "send" THEN "send_nudge" ELSE "error_handler"

\* state["error"] = ...; state["current_step"] = "error"
Failed(st, msg) == [st EXCEPT !.error = Some(msg), !.current_step = "error"]

\* what no action of the prediction service changes
pwFrame == <<fsRest, model_proba, predictions, coupon_usage, usage_limit, appliers, nApplies,
            recoVars, cartVars, ingVars, rtVars, ruleVars, rankVars, engineVars, logoutVars>>

PredictionIdle ==
    /\ tools_client = TRUE
    /\ state = InitialState
    /\ node = "idle"
    /\ executed = <<>>
    /\ caller = "none"
    /\ nRuns = 0
    /\ user_nudges = {}
    /\ coupons = {}
    /\ agent_user_coupons = {}
    /\ custom_user_messages = {}
    /\ nudge_reports = {}
    /\ response = NoResponse

\* the keyword arguments POST /predict passes (main.py:650-655) and the parameters
\* run_agent_prediction declares (graph.py:375-379)
PredictCallKwargs == {"user_id", "aerospike_client", "use_checkpointer", "use_store"}
RunAgentPredictionParams == {"user_id", "aerospike_client", "use_checkpointer"}

\* the keyword arguments the endpoint builds NudgeAction with (main.py:680-685) and
\* the required fields of NudgeAction (nudge_engine.py:20-24)
NudgeActionKwargs == {"action_type", "content_template", "channel", "priority"}
NudgeActionFields == {"type", "content_template", "channel", "priority"}

\* a run starts: create_initial_state, entry point retrieve_features
StartRun(who) ==
    /\ state' = InitialState
    /\ node' = "retrieve_features"
    /\ executed' = <<>>
    /\ caller' = who
    /\ nRuns' = nRuns + 1

\* run_agent_prediction(user_id, aerospike_client, use_checkpointer) called with the
\* parameters it declares
RunAgentPrediction ==
    /\ USE_AGENT_FLOW
    /\ node = "idle"
    /\ nRuns < MaxRuns
    /\ StartRun("direct")
    /\ UNCHANGED <<tools_client, user_nudges, coupons, agent_user_coupons,
                   custom_user_messages, nudge_reports, response, client, user_coupons>>
    /\ UNCHANGED pwFrame

\* POST /predict/{user_id}, agent flow: the call of run_agent_prediction; a keyword
\* the function does not declare raises TypeError, answered with 500
PredictAgent ==
    \E u \in Users :
        /\ USE_AGENT_FLOW
        /\ node = "idle"
        /\ nRuns < MaxRuns
        /\ IF PredictCallKwargs \subseteq RunAgentPredictionParams
           THEN /\ StartRun("endpoint")
                /\ UNCHANGED response
           ELSE /\ nRuns' = nRuns + 1
                /\ response' = [status |-> 500, flow |-> "agent",
                                no_features |-> NoStoredFeatures(u), store_up |-> TRUE,
                                message_failed |-> FALSE]
                /\ UNCHANGED <<state, node, executed, caller>>
        /\ UNCHANGED <<tools_client, user_nudges, coupons, agent_user_coupons,
                       custom_user_messages, nudge_reports, client, user_coupons>>
        /\ UNCHANGED pwFrame

\* a node ran: the state it returns, the node the graph routes to
NodeDone(name, st, next) ==
    /\ state' = st
    /\ node' = next
    /\ executed' = Append(executed, name)
    /\ UNCHANGED <<tools_client, caller, nRuns, response, client, user_coupons>>
    /\ UNCHANGED pwFrame

NothingPersisted ==
    UNCHANGED <<user_nudges, coupons, agent_user_coupons, custom_user_messages, nudge_reports>>

retrieve_features_node ==
    \E u \in Users, raises \in BOOLEAN, failAt \in 1..(Len(FEATURE_TYPES) + 1) :
        /\ node = "retrieve_features"
        /\ LET st == IF raises THEN Failed(state, "Feature retrieval failed")
                     ELSE [state EXCEPT !.user_features = retrieve_user_features_tool(u, failAt),
                                        !.current_step = "features_retrieved"]
           IN  NodeDone("retrieve_features", st, AfterFeatures(should_continue_after_features(st)))
        /\ NothingPersisted

\* predict_churn_tool returns {"error": ...} when the predictor raises
predict_churn_node ==
    \E predictOk \in BOOLEAN, reason \in ChurnReasons :
        /\ node = "predict_churn"
        /\ LET features == state.user_features
               prediction == predict_churn(model_proba, AbandonOf(features))
               st == IF features = EmptyMap
                     THEN Failed(state, "No features available for prediction")
                     ELSE IF ~predictOk THEN Failed(state, "prediction error")
                     ELSE [state EXCEPT
                             !.churn_prediction =
                                 Some([churn_probability |-> prediction.churn_probability,
                                       risk_segment |-> prediction.risk_segment,
                                       churn_reasons |-> reason]),
                             !.current_step = "churn_predicted"]
           IN  NodeDone("predict_churn", st, AfterPrediction(should_continue_after_prediction(st)))
        /\ NothingPersisted

decide_nudge_node ==
    \E raises \in BOOLEAN :
        /\ node = "decide_nudge"
        /\ LET st == IF state.churn_prediction = None
                     THEN Failed(state, "No prediction available for nudge decision")
                     ELSE IF raises THEN Failed(state, "Nudge decision failed")
                     ELSE [state EXCEPT
                             !.nudge_decision = Some(decide_nudge_tool(state.churn_prediction[1])),
                             !.current_step = "nudge_decided"]
           IN  NodeDone("decide_nudge", st, AfterDecision(should_continue_after_decision(st)))
        /\ NothingPersisted

generate_nudge_node ==
    \E raises \in BOOLEAN :
        /\ node = "generate_nudge"
        /\ LET decision == state.nudge_decision
               st == IF decision = None \/ ~decision[1].should_nudge
                     THEN [state EXCEPT !.current_step = "completed", !.completed = TRUE]
                     ELSE IF raises THEN Failed(state, "Nudge generation failed")
                     ELSE [state EXCEPT
                             !.generated_nudge =
                                 Some(generate_nudge_message_tool(
                                          decision[1].nudge_type,
                                          state.churn_prediction[1].churn_probability)),
                             !.current_step = "nudge_generated"]
           IN  NodeDone("generate_nudge", st, AfterGeneration(should_continue_after_generation(st)))
        /\ NothingPersisted

\* what send_nudge_tool returns: "success": True and "coupon_created": coupon_code is
\* not None, whatever the puts did
send_nudge_result(nudge_id, coupon_code) ==
    [nudge_id |-> nudge_id, path |-> "workflow", coupon_created |-> coupon_code # None]

\* what execute_nudges appends to executed_nudges for a nudge of the matched rule:
\* the NudgeAction, after the message and the coupon assignment were tried
executed_nudge(nudge_id, action_type) ==
    [nudge_id |-> nudge_id, path |-> "rule_engine", coupon_created |-> action_type = "coupon"]

\* send_nudge_tool stores the nudge record, the coupon and its user-coupon link, and
\* the notification message; each put is in its own try block (the user-coupon put
\* follows the coupon put in one block), a failure is logged and the tool goes on.
\* couponPuts counts the puts of the coupon block that succeed.  The node's edge to
\* END is unconditional.
send_nudge_node ==
    \E raises, nudgePutOk, msgPutOk \in BOOLEAN, couponPuts \in 0..2 :
        /\ node = "send_nudge"
        /\ LET nudge == state.generated_nudge
               nudge_id == nRuns
           IN  IF nudge = None
               THEN /\ NodeDone("send_nudge",
                                [state EXCEPT !.current_step = "completed", !.completed = TRUE],
                                "END")
                    /\ NothingPersisted
               ELSE IF raises
               THEN /\ NodeDone("send_nudge", Failed(state, "Nudge sending failed"), "END")
                    /\ NothingPersisted
               ELSE /\ NodeDone("send_nudge",
                                [state EXCEPT !.current_step = "completed", !.completed = TRUE],
                                "END")
                    /\ user_nudges' =
                          IF tools_client /\ nudgePutOk
                          THEN user_nudges \cup {nudge_id} ELSE user_nudges
                    /\ coupons' =
                          IF tools_client /\ nudge[1].coupon_code # None /\ couponPuts >= 1
                          THEN coupons \cup {nudge_id} ELSE coupons
                    /\ agent_user_coupons' =
                          IF tools_client /\ nudge[1].coupon_code # None /\ couponPuts >= 2
                          THEN agent_user_coupons \cup {nudge_id} ELSE agent_user_coupons
                    /\ custom_user_messages' =
                          IF tools_client /\ msgPutOk
                          THEN custom_user_messages \cup {nudge_id} ELSE custom_user_messages
                    /\ nudge_reports' = nudge_reports \cup
                          {send_nudge_result(nudge_id, nudge[1].coupon_code)}

error_handler_node ==
    /\ node = "error_handler"
    /\ NodeDone("error_handler", [state EXCEPT !.completed = TRUE], "END")
    /\ NothingPersisted

\* the answer POST /predict builds from the result of the run (main.py:657-709)
AgentResponseStatus(st) ==
    IF st.error # None THEN 500
    ELSE IF st.churn_prediction = None THEN 404
    ELSE IF /\ st.nudge_decision # None
            /\ st.nudge_decision[1].should_nudge
            /\ st.generated_nudge # None
            /\ ~(NudgeActionFields \subseteq NudgeActionKwargs)
         THEN 500
    ELSE 200

\* graph.ainvoke returns; the endpoint, when it is the caller, answers
FinishRun ==
    \E u \in Users :
        /\ node = "END"
        /\ node' = "idle"
        /\ response' =
              IF caller = "endpoint"
              THEN [status |-> AgentResponseStatus(state), flow |-> "agent",
                    no_features |-> NoStoredFeatures(u), store_up |-> TRUE,
                    message_failed |-> FALSE]
              ELSE response
        /\ UNCHANGED <<tools_client, state, executed, caller, nRuns, client, user_coupons>>
        /\ NothingPersisted
        /\ UNCHANGED pwFrame

\* what find_matching_rule can select at a probability, over all churn reasons:
\* "message": a rule without a Discount Coupon nudge, "coupon": a rule with one.
\* low_risk_engagement catches every probability up to 0.4; the rules with a coupon
\* start at 0.6 (nudge_engine.py:33-147)
ManualRuleOutcomes(churn_probability) ==
    IF churn_probability <= 40 THEN {"message"}
    ELSE IF churn_probability < 60 THEN {"none", "message"}
    ELSE {"none", "message", "coupon"}

\* what the LLM answers: response.content, empty or a text
LLMContents == {"", "text"}

\* MessageGenerator.generate_message: an empty content raises ValueError inside the
\* try, which is logged, and the method returns None
generate_message(content) == IF content = "" THEN None ELSE Some(content)

\* POST /messages/custom answers 500 without a generated message; sendOk: the call
\* itself and the storing of the message succeed
send_custom_message(content, sendOk) ==
    IF generate_message(content) = None THEN 500 ELSE IF sendOk THEN 200 ELSE 500

\* NudgeEngine._send_custom_message: True for a 200 answer, else logged and False
SendCustomMessage(content, sendOk) == send_custom_message(content, sendOk) = 200

ManualStatusMessageFatal(features, predictOk, messageSent) ==
    IF features = EmptyMap THEN 404
    ELSE IF ~predictOk \/ ~messageSent THEN 500 ELSE 200

\* the status of the manual flow's answer: 404 without features, 500 when the
\* predictor raises; what trigger_nudges does is inside its own try/except and
\* execute_nudges only logs a message that was not sent
ManualStatus(features, predictOk, messageSent) ==
    IF features = EmptyMap THEN 404
    ELSE IF ~predictOk THEN 500 ELSE 200

\* POST /predict/{user_id}, manual flow: retrieve_all_features, predict_churn,
\* nudge_engine.trigger_nudges (a custom message for every matched rule, a coupon
\* assignment at the storefront for a Discount Coupon nudge; failures are logged)
PredictManual ==
    \E u \in Users, connectOk, predictOk, msgOk, assignOk \in BOOLEAN,
       failAt \in 1..(Len(FEATURE_TYPES) + 1), rule \in {"none", "message", "coupon"},
       c \in CouponIds, content \in LLMContents :
        /\ ~USE_AGENT_FLOW
        /\ nRuns < MaxRuns
        /\ nRuns' = nRuns + 1
        /\ UNCHANGED <<tools_client, state, node, executed, caller,
                       user_nudges, coupons, agent_user_coupons>>
        /\ UNCHANGED pwFrame
        /\ IF ~client /\ ~connectOk
           THEN /\ response' = [status |-> 503, flow |-> "manual",
                                no_features |-> NoStoredFeatures(u), store_up |-> FALSE,
                                message_failed |-> FALSE]
                /\ UNCHANGED <<client, custom_user_messages, user_coupons, nudge_reports>>
           ELSE LET features == DirectLoop(u, 1, failAt - 1, LoopStart).all_features
                    prediction == predict_churn(model_proba, AbandonOf(features))
                    answered == features # EmptyMap /\ predictOk
                    matched == IF rule \in ManualRuleOutcomes(prediction.churn_probability)
                               THEN rule ELSE "none"
                    attempted == answered /\ matched # "none"
                    messageSent == ~attempted \/ SendCustomMessage(content, msgOk)
                IN  /\ client' = (failAt > Len(FEATURE_TYPES))
                    /\ response' =
                          [status |-> ManualStatus(features, predictOk, messageSent),
                           flow |-> "manual",
                           no_features |-> NoStoredFeatures(u), store_up |-> TRUE,
                           message_failed |-> attempted /\ generate_message(content) = None]
                    /\ custom_user_messages' =
                          IF attempted /\ messageSent
                          THEN custom_user_messages \cup {nRuns + 1}
                          ELSE custom_user_messages
                    /\ user_coupons' =
                          IF answered /\ matched = "coupon"
                          THEN AfterAssign(user_coupons, u, c, assignOk)
                          ELSE user_coupons
                    /\ nudge_reports' =
                          IF attempted
                          THEN nudge_reports \cup {executed_nudge(nRuns + 1, matched)}
                          ELSE nudge_reports

PredictionNext ==
    \/ RunAgentPrediction
    \/ PredictAgent
    \/ PredictManual
    \/ retrieve_features_node
    \/ predict_churn_node
    \/ decide_nudge_node
    \/ generate_nudge_node
    \/ send_nudge_node
    \/ error_handler_node
    \/ FinishRun

\* the features a user may have stored before the requests of the model
SeedBehavior == {EmptyMap, [sess_7d |-> 1]}
SeedRealtime == {EmptyMap, [abandon_count |-> 1], [abandon_count |-> 2]}

Seeded(features, feature_type) ==
    IF features = EmptyMap THEN EmptyMap ELSE WithMetadata(features, 1, feature_type)

\* start-up (lifespan): connect_aerospike, then configure_tools with the client
PredictionInit ==
    /\ USE_AGENT_FLOW \in BOOLEAN
    /\ USE_LANGGRAPH_STORE = TRUE
    /\ client \in BOOLEAN
    /\ tools_client = client
    /\ \E b \in SeedBehavior, r \in SeedRealtime :
          aerospike_bins = [u \in Users, f \in FamilySet |->
                               IF f = "behavior" THEN Seeded(b, f)
                               ELSE IF f = "realtime" THEN Seeded(r, f)
                               ELSE EmptyMap]
    /\ store_items = [u \in Users, f \in FamilySet |-> EmptyMap]
    /\ now = 1
    /\ nIngest = 0
    /\ ingested = [u \in Users |-> <<>>]
    /\ lastIngest = NoCall
    /\ lastRetrieve = NoCall
    /\ model_proba \in ProbaSamples
    /\ predictions = [n \in AbandonCounts |-> NoPrediction]
    /\ state = InitialState
    /\ node = "idle"
    /\ executed = <<>>
    /\ caller = "none"
    /\ nRuns = 0
    /\ user_nudges = {}
    /\ coupons = {}
    /\ agent_user_coupons = {}
    /\ custom_user_messages = {}
    /\ nudge_reports = {}
    /\ response = NoResponse
    /\ CouponIdle

\* ------------------------------------------- recommendations workflow
\* POST /recommendations/{user_id} requests in one behaviour
MaxRecoRuns == 2

\* the catalogue: product ids and prices in cents (a product priced 0 is never
\* recommended, reco_graph.py:276-278)
Products == {"p1", "p2", "p3"}
ProductPrice == [p1 |-> 50000, p2 |-> 1999, p3 |-> 0]

\* the carts a request may carry: the product ids of its items, and whether price
\* and quantity of every item are numbers (cart_items is List[Dict[str, Any]])
CartChoices ==
    {[ids |-> ids, numeric |-> numeric] :
        ids \in SUBSET {"p1", "p2"}, numeric \in BOOLEAN} \ {[ids |-> {}, numeric |-> FALSE]}

\* reco_state.py:100-121
DISCOUNT_TIERS ==
    [low_risk |-> [min_discount |-> 0, max_discount |-> 5],
     medium_risk |-> [min_discount |-> 5, max_discount |-> 10],
     high_risk |-> [min_discount |-> 15, max_discount |-> 20],
     critical |-> [min_discount |-> 20, max_discount |-> 30]]

\* DISCOUNT_TIERS.get(churn_risk, DISCOUNT_TIERS["low_risk"])
TierOf(churn_risk) ==
    IF churn_risk \in DOMAIN DISCOUNT_TIERS THEN DISCOUNT_TIERS[churn_risk]
    ELSE DISCOUNT_TIERS["low_risk"]

\* round(x, 2) of a price: v is the price in hundredths of a cent, the result in
\* cents (the prices of the model produce no tie)
RoundCents(v) == (v + 50) \div 100

\* get_discount_for_risk: <<discounted_price, discount_pct>>
get_discount_for_risk(churn_risk, base_price) ==
    LET tier == TierOf(churn_risk)
        discount_pct == (tier.min_discount + tier.max_discount) \div 2
    IN  IF discount_pct > 0
        THEN <<RoundCents(base_price * (100 - discount_pct)), discount_pct>>
        ELSE <<base_price, 0>>

\* create_initial_reco_state; cart_total, feature_freshness and messages are left out
InitialRecoState ==
    [cart_items |-> {}, user_features |-> EmptyMap, churn_probability |-> 0,
     churn_risk |-> "low_risk", similar_products |-> {}, recommendations |-> <<>>,
     current_step |-> "started", error |-> None, completed |-> FALSE]

NoRecoResponse ==
    [status |-> 0, source |-> "none", recommendations |-> <<>>, churn_risk |-> "none",
     cart |-> {}, indexer_ran |-> FALSE]

\* an answer without a body: HTTPException(status_code=code)
RecoHttpError(code) == [NoRecoResponse EXCEPT !.status = code, !.indexer_ran = indexer_ran]

\* the orders a list of the elements of S can have
Orderings(S) ==
    {seq \in [1..Cardinality(S) -> S] :
        \A i, j \in 1..Cardinality(S) : i # j => seq[i] # seq[j]}

\* the value store_recommendations_node puts, and a variant that stores the list
\* without its last element
reco_data_truncated(st, cart) ==
    [recommendations |-> SubSeq(st.recommendations, 1, Len(st.recommendations) - 1),
     churn_risk |-> st.churn_risk, cart |-> cart]

reco_data(st, cart) ==
    [recommendations |-> st.recommendations, churn_risk |-> st.churn_risk, cart |-> cart]

NoInput == [ids |-> {}, numeric |-> TRUE]

\* reco_graph.py:400-404 and the edge maps of create_recommendations_graph
should_continue(st) == IF st.error # None THEN "error" ELSE "continue"
RecoEdge(route, next) == IF route = "continue" THEN next ELSE "error_handler"

\* search_similar_products over at most three queries, deduplicated: the indexed
\* products without the excluded ids; a failing search returns [].  The limits (10
\* per query, 15 kept) exceed the catalogue
SearchResults(index, cart_product_ids, searchOk) ==
    IF searchOk THEN {pid \in index : pid \notin cart_product_ids} ELSE {}

\* a RecommendedProduct for a similar product (reason, rating and score left out)
RecommendedProduct(pid, churn_risk) ==
    LET price == ProductPrice[pid]
        d == get_discount_for_risk(churn_risk, price)
    IN  [product_id |-> pid, price |-> price, discounted_price |-> d[1],
         discount_percentage |-> d[2]]

RecoIdle ==
    /\ reco_store = TRUE
    /\ products_indexed = FALSE
    /\ product_index = {}
    /\ reco_state = InitialRecoState
    /\ reco_node = "idle"
    /\ reco_executed = <<>>
    /\ reco_input = NoInput
    /\ nReco = 0
    /\ user_recommendations = [u \in Users |-> None]
    /\ reco_response = NoRecoResponse
    /\ indexer_ran = FALSE
    /\ last_generated = [u \in Users |-> None]

\* POST /recommendations/index: the products of the body, or those fetched from the
\* storefront when the body has none (possibly none at all); a product whose put
\* fails is skipped, and products_indexed is set only when indexed_count > 0
IndexProducts ==
    \E products \in SUBSET Products, failed \in SUBSET Products :
        /\ reco_node = "idle"
        /\ USE_AGENT_FLOW /\ reco_store
        /\ LET indexed == products \ failed
           IN  /\ product_index' = product_index \cup indexed
               /\ products_indexed' = (products_indexed \/ indexed # {})
        /\ indexer_ran' = TRUE
        /\ UNCHANGED <<reco_store, reco_state, reco_node, reco_executed, reco_input, nReco,
                       user_recommendations, reco_response, last_generated>>
        /\ UNCHANGED notReco

\* POST /recommendations/{user_id}: 503 unless the store is there and products are
\* indexed, else run_recommendations_workflow with the cart of the request
TriggerRecommendations ==
    \E u \in Users, cart \in CartChoices :
        /\ reco_node = "idle"
        /\ nReco < MaxRecoRuns
        /\ nReco' = nReco + 1
        /\ IF ~USE_AGENT_FLOW \/ ~reco_store \/ ~products_indexed
           THEN /\ reco_response' = RecoHttpError(503)
                /\ UNCHANGED <<reco_state, reco_node, reco_executed, reco_input, last_generated>>
           ELSE /\ reco_state' = [InitialRecoState EXCEPT !.cart_items = cart.ids]
                /\ reco_node' = "get_cart"
                /\ reco_executed' = <<>>
                /\ reco_input' = cart
                /\ last_generated' = [last_generated EXCEPT ![u] = None]
                /\ UNCHANGED reco_response
        /\ UNCHANGED <<reco_store, products_indexed, product_index, user_recommendations,
                       indexer_ran>>
        /\ UNCHANGED notReco

RecoNodeDone(name, st, next) ==
    /\ reco_state' = st
    /\ reco_node' = next
    /\ reco_executed' = Append(reco_executed, name)
    /\ UNCHANGED <<reco_store, products_indexed, product_index, reco_input, nReco,
                   reco_response, indexer_ran, last_generated>>
    /\ UNCHANGED notReco

\* get_cart_items_node: logging a price with :.2f and summing price * quantity raise
\* when a price or quantity is not a number; the except branch empties the cart
get_cart_items_node ==
    /\ reco_node = "get_cart"
    /\ LET st == IF reco_input.numeric
                 THEN [reco_state EXCEPT !.current_step = "cart_fetched"]
                 ELSE [reco_state EXCEPT !.cart_items = {}, !.current_step = "cart_fetched"]
       IN  RecoNodeDone("get_cart", st, RecoEdge(should_continue(st), "get_features"))
    /\ UNCHANGED user_recommendations

get_user_features_node ==
    \E u \in Users, getOk \in BOOLEAN :
        /\ reco_node = "get_features"
        /\ LET features == IF getOk THEN StoreLoop(u, 1, LoopStart).all_features ELSE EmptyMap
               st == [reco_state EXCEPT !.user_features = features,
                                        !.current_step = "features_retrieved"]
           IN  RecoNodeDone("get_features", st, RecoEdge(should_continue(st), "estimate_churn"))
        /\ UNCHANGED user_recommendations

\* estimate_churn_risk_node: low_risk at probability 0 unless the predictor scores
estimate_churn_risk_node ==
    \E predictOk \in BOOLEAN :
        /\ reco_node = "estimate_churn"
        /\ LET features == reco_state.user_features
               prediction == predict_churn(model_proba, AbandonOf(features))
               scored == features # EmptyMap /\ predictOk
               st == [reco_state EXCEPT
                        !.churn_probability = IF scored THEN prediction.churn_probability ELSE 0,
                        !.churn_risk = IF scored THEN prediction.risk_segment ELSE "low_risk",
                        !.current_step = "churn_estimated"]
           IN  RecoNodeDone("estimate_churn", st, RecoEdge(should_continue(st), "vector_search"))
        /\ UNCHANGED user_recommendations

\* vector_search_products_node: cart_product_ids comes from the cart_items of the state
vector_search_products_node ==
    \E searchOk \in BOOLEAN :
        /\ reco_node = "vector_search"
        /\ LET cart_product_ids == reco_state.cart_items
               found == SearchResults(product_index, cart_product_ids, searchOk)
               st == [reco_state EXCEPT
                        !.similar_products = {pid \in found : pid \notin cart_product_ids},
                        !.current_step = "products_searched"]
           IN  RecoNodeDone("vector_search", st, RecoEdge(should_continue(st), "rank_discount"))
        /\ UNCHANGED user_recommendations

\* rank_and_discount_node: the list is sorted by similarity score and rating, which
\* the search supplies, so any order of the priced products can result; the cut to
\* the top 8 exceeds the catalogue
rank_and_discount_node ==
    \E ranked \in Orderings({q \in reco_state.similar_products : ProductPrice[q] > 0}) :
        /\ reco_node = "rank_discount"
        /\ LET st == [reco_state EXCEPT
                        !.recommendations =
                            [i \in 1..Len(ranked) |->
                                RecommendedProduct(ranked[i], reco_state.churn_risk)],
                        !.current_step = "ranked"]
           IN  RecoNodeDone("rank_discount", st,
                            RecoEdge(should_continue(st), "store_recommendations"))
        /\ UNCHANGED user_recommendations

\* store_recommendations_node: the cache entry of the user is replaced; when the put
\* raises the error is recorded.  The node's edge to END is unconditional.  The cart
\* of the request is kept with the entry to state properties of cached responses
store_recommendations_node ==
    \E u \in Users, putOk \in BOOLEAN :
        /\ reco_node = "store_recommendations"
        /\ IF putOk
           THEN /\ user_recommendations' =
                      [user_recommendations EXCEPT ![u] =
                          Some(reco_data(reco_state, reco_input.ids))]
                /\ RecoNodeDone("store_recommendations",
                                [reco_state EXCEPT !.current_step = "stored", !.completed = TRUE],
                                "END")
           ELSE /\ UNCHANGED user_recommendations
                /\ RecoNodeDone("store_recommendations",
                                [reco_state EXCEPT !.error = Some("store failed"),
                                                   !.current_step = "error"],
                                "END")

\* graph.ainvoke returns and trigger_recommendations answers: 500 when the result
\* carries an error, else the recommendations with source "generated".  The state of
\* the run is local to the call and is dropped
RecoFinish ==
    \E u \in Users :
        /\ reco_node = "END"
        /\ reco_node' = "idle"
        /\ reco_response' =
              IF reco_state.error # None
              THEN RecoHttpError(500)
              ELSE [status |-> 200, source |-> "generated",
                    recommendations |-> reco_state.recommendations,
                    churn_risk |-> reco_state.churn_risk, cart |-> reco_input.ids,
                    indexer_ran |-> indexer_ran]
        /\ last_generated' =
              IF reco_state.error # None THEN last_generated
              ELSE [last_generated EXCEPT ![u] = Some(reco_state.recommendations)]
        /\ reco_state' = InitialRecoState
        /\ reco_executed' = <<>>
        /\ reco_input' = NoInput
        /\ UNCHANGED <<reco_store, products_indexed, product_index, nReco,
                       user_recommendations, indexer_ran>>
        /\ UNCHANGED notReco

\* GET /recommendations/{user_id}: the cached entry, 404 when there is none, 500 when
\* reading the store raises; products_indexed is not consulted
GetRecommendations ==
    \E u \in Users, getOk \in BOOLEAN :
        /\ reco_node = "idle"
        /\ reco_response' =
              IF ~USE_AGENT_FLOW \/ ~reco_store THEN RecoHttpError(503)
              ELSE IF ~getOk THEN RecoHttpError(500)
              ELSE IF user_recommendations[u] = None THEN RecoHttpError(404)
              ELSE LET data == user_recommendations[u][1]
                   IN  [status |-> 200, source |-> "cached",
                        recommendations |-> data.recommendations,
                        churn_risk |-> data.churn_risk, cart |-> data.cart,
                        indexer_ran |-> indexer_ran]
        /\ UNCHANGED <<reco_store, products_indexed, product_index, reco_state, reco_node,
                       reco_executed, reco_input, nReco, user_recommendations, indexer_ran,
                       last_generated>>
        /\ UNCHANGED notReco

RecoNext ==
    \/ IndexProducts
    \/ TriggerRecommendations
    \/ get_cart_items_node
    \/ get_user_features_node
    \/ estimate_churn_risk_node
    \/ vector_search_products_node
    \/ rank_and_discount_node
    \/ store_recommendations_node
    \/ RecoFinish
    \/ GetRecommendations

\* start-up: agent flow on, the recommendation store created or not, no product
\* indexed; the user's features as the Store API holds them
RecoInit ==
    /\ USE_AGENT_FLOW = TRUE
    /\ USE_LANGGRAPH_STORE = TRUE
    /\ client = TRUE
    /\ aerospike_bins = [u \in Users, f \in FamilySet |-> EmptyMap]
    /\ \E r \in SeedRealtime :
          store_items = [u \in Users, f \in FamilySet |->
                            IF f = "realtime" THEN Seeded(r, f) ELSE EmptyMap]
    /\ now = 1
    /\ nIngest = 0
    /\ ingested = [u \in Users |-> <<>>]
    /\ lastIngest = NoCall
    /\ lastRetrieve = NoCall
    /\ model_proba \in ProbaSamples
    /\ predictions = [n \in AbandonCounts |-> NoPrediction]
    /\ PredictionIdle
    /\ CouponIdle
    /\ reco_store \in BOOLEAN
    /\ products_indexed = FALSE
    /\ product_index = {}
    /\ reco_state = InitialRecoState
    /\ reco_node = "idle"
    /\ reco_executed = <<>>
    /\ reco_input = NoInput
    /\ nReco = 0
    /\ user_recommendations = [u \in Users |-> None]
    /\ reco_response = NoRecoResponse
    /\ indexer_ran = FALSE
    /\ last_generated = [u \in Users |-> None]

\* ------------------------------------------------ storefront cart load
\* POST /api/cart/load requests in one behaviour
MaxCartLoads == 3

\* asyncio.wait_for(prediction_task, timeout=3.0), in seconds
WaitTimeout == 3

\* what trigger_churn_prediction returns: the body of a 200 answer of POST /predict
\* (its risk_segment is kept), None for another status or an exception
PredictionData == {Some(seg) : seg \in {"low", "medium", "high", "critical"}} \cup {None}

NoCartResponse == [answered |-> FALSE, churn_prediction |-> None, returned_early |-> FALSE]

CartIdle ==
    /\ cart_phase = "idle"
    /\ prediction_task = "none"
    /\ task_result = None
    /\ waited = 0
    /\ cart_context = 0
    /\ cart_response = NoCartResponse
    /\ nLoads = 0

\* on_cart_load up to its await: the cart context is ingested when the request has
\* cart items (a failure is logged), then the prediction call is started as a task
OnCartLoad ==
    \E hasItems, ingestOk \in BOOLEAN :
        /\ cart_phase \in {"idle", "answered"}
        /\ nLoads < MaxCartLoads
        /\ nLoads' = nLoads + 1
        /\ cart_context' = IF hasItems /\ ingestOk THEN cart_context + 1 ELSE cart_context
        /\ prediction_task' = "pending"
        /\ task_result' = None
        /\ waited' = 0
        /\ cart_phase' = "waiting"
        /\ cart_response' = NoCartResponse
        /\ UNCHANGED notCart

\* trigger_churn_prediction returns: POST /predict answered, or the call failed
PredictionCallReturns ==
    \E data \in PredictionData :
        /\ prediction_task = "pending"
        /\ prediction_task' = "finished"
        /\ task_result' = data
        /\ UNCHANGED <<cart_phase, waited, cart_context, cart_response, nLoads>>
        /\ UNCHANGED notCart

\* a second passes while on_cart_load waits for the task
WaitOneSecond ==
    /\ cart_phase = "waiting"
    /\ prediction_task = "pending"
    /\ waited < WaitTimeout
    /\ waited' = waited + 1
    /\ UNCHANGED <<cart_phase, prediction_task, task_result, cart_context, cart_response, nLoads>>
    /\ UNCHANGED notCart

\* wait_for returns the task's result within the timeout
WaitForReturns ==
    /\ cart_phase = "waiting"
    /\ prediction_task = "finished"
    /\ cart_phase' = "answered"
    /\ cart_response' = [answered |-> TRUE, churn_prediction |-> task_result,
                         returned_early |-> FALSE]
    /\ UNCHANGED <<prediction_task, task_result, waited, cart_context, nLoads>>
    /\ UNCHANGED notCart

\* the timeout of wait_for expires: asyncio.wait_for cancels the task it awaits, waits
\* for the cancellation and raises TimeoutError; CancelledError passes the
\* `except Exception` of trigger_churn_prediction.  on_cart_load answers without a
\* prediction.  (The 10 second timeout of the httpx client cannot expire first.)
WaitForTimesOut ==
    /\ cart_phase = "waiting"
    /\ prediction_task = "pending"
    /\ waited = WaitTimeout
    /\ prediction_task' = "cancelled"
    /\ cart_phase' = "answered"
    /\ cart_response' = [answered |-> TRUE, churn_prediction |-> None, returned_early |-> TRUE]
    /\ UNCHANGED <<task_result, waited, cart_context, nLoads>>
    /\ UNCHANGED notCart

CartNext ==
    \/ OnCartLoad
    \/ PredictionCallReturns
    \/ WaitOneSecond
    \/ WaitForReturns
    \/ WaitForTimesOut

\* ---------------------------------------------------- concurrent ingests
\* ingest requests in flight at the same time; each reads the record, merges, and
\* puts, and the requests interleave between the read and the put
Ingesters == {"r1", "r2"}

IdleIngester ==
    [pc |-> "idle", family |-> "behavior", features |-> EmptyMap, existing_features |-> EmptyMap]

ConcurrentIdle ==
    /\ ingester = [r \in Ingesters |-> IdleIngester]
    /\ written = {}
    /\ completed = {}

\* the fs variables no step of a concurrent ingest changes
ingFrame == <<USE_AGENT_FLOW, USE_LANGGRAPH_STORE, client, ingested, lastIngest, lastRetrieve>>

\* the stored record of (user, family) on the path the flags select
StoredRecord(u, f) == IF UseStoreApi THEN store_items[u, f] ELSE aerospike_bins[u, f]

\* POST /ingest/{family} arrives
BeginIngest(r) ==
    \E f \in IngestFamilies :
      \E features \in FeatureDicts(f) :
        /\ ingester[r].pc = "idle"
        /\ nIngest < MaxIngests
        /\ nIngest' = nIngest + 1
        /\ ingester' = [ingester EXCEPT ![r] =
                           [pc |-> "read", family |-> f, features |-> features,
                            existing_features |-> EmptyMap]]
        /\ written' = written \cup {<<f, k, features[k]>> : k \in DOMAIN features}
        /\ UNCHANGED <<completed, aerospike_bins, store_items, now>>
        /\ UNCHANGED ingFrame
        /\ UNCHANGED notIng

\* store.get / client.get: a failing store.get raises (HTTP 500), a failing
\* client.get leaves existing_features = {}
ReadExisting(r) ==
    \E u \in Users, getOk \in BOOLEAN :
        /\ ingester[r].pc = "read"
        /\ ingester' = [ingester EXCEPT ![r] =
              IF getOk
              THEN [ingester[r] EXCEPT
                      !.pc = "put",
                      !.existing_features = StripMeta(StoredRecord(u, ingester[r].family))]
              ELSE IF UseStoreApi THEN IdleIngester
              ELSE [ingester[r] EXCEPT !.pc = "put"]]
        /\ UNCHANGED <<written, completed, aerospike_bins, store_items, now, nIngest>>
        /\ UNCHANGED ingFrame
        /\ UNCHANGED notIng

\* store.put / client.put of the merged features with their metadata; the timestamp
\* is taken when the value is built
PutMerged(r) ==
    \E u \in Users, putOk \in BOOLEAN :
        /\ ingester[r].pc = "put"
        /\ ingester' = [ingester EXCEPT ![r] = IdleIngester]
        /\ UNCHANGED <<written, nIngest>>
        /\ UNCHANGED ingFrame
        /\ UNCHANGED notIng
        /\ LET f == ingester[r].family
               merged_features == MergedFeatures(ingester[r].existing_features,
                                                 ingester[r].features)
               value == WithMetadata(merged_features, now + 1, f)
           IN  IF putOk
               THEN /\ now' = now + 1
                    /\ completed' = completed \cup {<<f, k>> : k \in DOMAIN ingester[r].features}
                    /\ IF UseStoreApi
                       THEN /\ store_items' = [store_items EXCEPT
                                                 ![u, f] = StorePut(store_items[u, f], value)]
                            /\ UNCHANGED aerospike_bins
                       ELSE /\ aerospike_bins' = [aerospike_bins EXCEPT
                                                 ![u, f] = AerospikePut(aerospike_bins[u, f], value)]
                            /\ UNCHANGED store_items
               ELSE UNCHANGED <<now, completed, aerospike_bins, store_items>>

ConcurrentNext ==
    \E r \in Ingesters :
        \/ BeginIngest(r)
        \/ ReadExisting(r)
        \/ PutMerged(r)

\* --------------------------------------------------------- workflow runtime
\* workflow calls in one behaviour
MaxWorkflows == 2

\* the edges of the two graphs without the edge from error_handler to END
SuccessorsWithoutErrorExit(workflow, n) ==
    IF n = "error_handler" THEN {}
    ELSE IF workflow = "prediction"
    THEN IF n = "retrieve_features" THEN {AfterFeatures(r) : r \in {"predict", "error"}}
         ELSE IF n = "predict_churn" THEN {AfterPrediction(r) : r \in {"decide", "error"}}
         ELSE IF n = "decide_nudge" THEN {AfterDecision(r) : r \in {"generate", "end", "error"}}
         ELSE IF n = "generate_nudge" THEN {AfterGeneration(r) : r \in {"send", "error"}}
         ELSE {"END"}
    ELSE IF n = "get_cart" THEN {RecoEdge(r, "get_features") : r \in {"continue", "error"}}
         ELSE IF n = "get_features" THEN {RecoEdge(r, "estimate_churn") : r \in {"continue", "error"}}
         ELSE IF n = "estimate_churn" THEN {RecoEdge(r, "vector_search") : r \in {"continue", "error"}}
         ELSE IF n = "vector_search" THEN {RecoEdge(r, "rank_discount") : r \in {"continue", "error"}}
         ELSE IF n = "rank_discount"
              THEN {RecoEdge(r, "store_recommendations") : r \in {"continue", "error"}}
         ELSE {"END"}

\* the edges of create_churn_prediction_graph and of create_recommendations_graph:
\* the nodes a node can route to
Successors(workflow, n) ==
    IF workflow = "prediction"
    THEN IF n = "retrieve_features" THEN {AfterFeatures(r) : r \in {"predict", "error"}}
         ELSE IF n = "predict_churn" THEN {AfterPrediction(r) : r \in {"decide", "error"}}
         ELSE IF n = "decide_nudge" THEN {AfterDecision(r) : r \in {"generate", "end", "error"}}
         ELSE IF n = "generate_nudge" THEN {AfterGeneration(r) : r \in {"send", "error"}}
         ELSE {"END"}
    ELSE IF n = "get_cart" THEN {RecoEdge(r, "get_features") : r \in {"continue", "error"}}
         ELSE IF n = "get_features" THEN {RecoEdge(r, "estimate_churn") : r \in {"continue", "error"}}
         ELSE IF n = "estimate_churn" THEN {RecoEdge(r, "vector_search") : r \in {"continue", "error"}}
         ELSE IF n = "vector_search" THEN {RecoEdge(r, "rank_discount") : r \in {"continue", "error"}}
         ELSE IF n = "rank_discount"
              THEN {RecoEdge(r, "store_recommendations") : r \in {"continue", "error"}}
         ELSE {"END"}

\* get_checkpoint_config: thread_id predict_{user_id}, checkpoint_ns churn_prediction
get_checkpoint_config(u) == [thread_id |-> <<"predict", u>>, checkpoint_ns |-> "churn_prediction"]

\* run_recommendations_workflow: {"configurable": {"thread_id": f"reco_{user_id}"}}
reco_config(u) == [thread_id |-> <<"reco", u>>, checkpoint_ns |-> ""]

NoConfig == [thread_id |-> <<>>, checkpoint_ns |-> ""]

NoRun ==
    [workflow |-> "none", caller |-> "none", config |-> NoConfig, saver |-> FALSE,
     saver_failed |-> FALSE, node |-> "idle", phase |-> "idle", executed |-> <<>>]

NoResult ==
    [workflow |-> "none", caller |-> "none", raised |-> FALSE, checkpoint_failed |-> "none",
     executed |-> <<>>]

RuntimeIdle ==
    /\ wf_run = NoRun
    /\ checkpoints = {}
    /\ wf_result = NoResult
    /\ nWorkflows = 0

\* a compiled graph with a checkpointer snapshots the state at each node boundary;
\* one without runs its nodes directly
BoundaryPhase(saver) == IF saver THEN "boundary" ELSE "node"

\* run_agent_prediction up to graph.ainvoke.  aerospike_client: a client or None;
\* saverOk: get_aerospike_saver returns (a failure is logged and checkpointer stays
\* None).  POST /predict passes use_checkpointer=True and a keyword the function
\* does not declare, which raises TypeError before the body runs
InvokePrediction ==
    \E u \in Users, who \in {"endpoint", "direct"},
       aerospike_client, use_checkpointer, saverOk \in BOOLEAN :
        /\ wf_run.workflow = "none"
        /\ nWorkflows < MaxWorkflows
        /\ who = "endpoint" => use_checkpointer
        /\ nWorkflows' = nWorkflows + 1
        /\ IF who = "endpoint" /\ ~(PredictCallKwargs \subseteq RunAgentPredictionParams)
           THEN /\ wf_result' = [workflow |-> "prediction", caller |-> who, raised |-> TRUE,
                                 checkpoint_failed |-> "none", executed |-> <<>>]
                /\ UNCHANGED wf_run
           ELSE LET checkpointer == use_checkpointer /\ aerospike_client /\ saverOk
                IN  /\ wf_run' =
                          [workflow |-> "prediction", caller |-> who,
                           config |-> IF use_checkpointer THEN get_checkpoint_config(u)
                                      ELSE NoConfig,
                           saver |-> checkpointer,
                           saver_failed |-> use_checkpointer /\ aerospike_client /\ ~saverOk,
                           node |-> "retrieve_features",
                           phase |-> BoundaryPhase(checkpointer), executed |-> <<>>]
                    /\ UNCHANGED wf_result
        /\ UNCHANGED checkpoints
        /\ UNCHANGED notRuntime

\* POST /recommendations/{user_id}/trigger past its 503 guards: the call of
\* run_recommendations_workflow names no checkpointer, so the parameter is None and
\* the graph is compiled without one
InvokeRecommendations ==
    \E u \in Users :
        /\ wf_run.workflow = "none"
        /\ nWorkflows < MaxWorkflows
        /\ nWorkflows' = nWorkflows + 1
        /\ wf_run' = [workflow |-> "recommendations", caller |-> "endpoint",
                      config |-> reco_config(u), saver |-> FALSE, saver_failed |-> FALSE,
                      node |-> "get_cart", phase |-> BoundaryPhase(FALSE),
                      executed |-> <<>>]
        /\ UNCHANGED <<checkpoints, wf_result>>
        /\ UNCHANGED notRuntime

\* the saver's put at a node boundary; a put the store refuses raises inside
\* graph.ainvoke, which neither workflow function shields from the run
PutCheckpoint ==
    \E putOk \in BOOLEAN :
        /\ wf_run.phase = "boundary"
        /\ IF putOk
           THEN /\ checkpoints' = checkpoints \cup
                                     {<<wf_run.config.thread_id, wf_run.config.checkpoint_ns,
                                        Len(wf_run.executed)>>}
                /\ wf_run' = [wf_run EXCEPT !.phase = "node"]
           ELSE /\ wf_run' = [wf_run EXCEPT !.phase = "raised"]
                /\ UNCHANGED checkpoints
        /\ UNCHANGED <<wf_result, nWorkflows>>
        /\ UNCHANGED notRuntime

\* a node runs and the graph routes to the next one; nodes catch their own
\* exceptions and record them in the state
RunNode ==
    \E next \in Successors(wf_run.workflow, wf_run.node) :
        /\ wf_run.phase = "node"
        /\ wf_run' = [wf_run EXCEPT !.executed = Append(@, wf_run.node),
                                    !.node = next,
                                    !.phase = IF next = "END" THEN "returned"
                                              ELSE BoundaryPhase(wf_run.saver)]
        /\ UNCHANGED <<checkpoints, wf_result, nWorkflows>>
        /\ UNCHANGED notRuntime

\* graph.ainvoke returns or raises: the try and the except branch of
\* run_agent_prediction and of run_recommendations_workflow
AinvokeEnds ==
    /\ wf_run.phase \in {"returned", "raised"}
    /\ wf_result' = [workflow |-> wf_run.workflow, caller |-> wf_run.caller,
                     raised |-> wf_run.phase = "raised",
                     checkpoint_failed |-> IF wf_run.phase = "raised" THEN "write"
                                           ELSE IF wf_run.saver_failed THEN "creation"
                                           ELSE "none",
                     executed |-> wf_run.executed]
    /\ wf_run' = NoRun
    /\ UNCHANGED <<checkpoints, nWorkflows>>
    /\ UNCHANGED notRuntime

RuntimeNext ==
    \/ InvokePrediction
    \/ InvokeRecommendations
    \/ PutCheckpoint
    \/ RunNode
    \/ AinvokeEnds

\* ------------------------------------------------------------ nudge rules
\* strings whose characters the engine inspects are sequences of characters

\* reasons in one churn_reasons list
MaxReasons == 2

UpperCase == <<"A", "B", "C", "D", "E", "F", "G", "H", "I", "J", "K", "L", "M",
               "N", "O", "P", "Q", "R", "S", "T", "U", "V", "W", "X", "Y", "Z">>
LowerCase == <<"a", "b", "c", "d", "e", "f", "g", "h", "i", "j", "k", "l", "m",
               "n", "o", "p", "q", "r", "s", "t", "u", "v", "w", "x", "y", "z">>

\* str.lower()
lower(s) ==
    [i \in 1..Len(s) |->
        IF \E k \in 1..26 : UpperCase[k] = s[i]
        THEN LowerCase[CHOOSE k \in 1..26 : UpperCase[k] = s[i]]
        ELSE s[i]]

\* a in b, for strings
In(a, b) == \E i \in 0..(Len(b) - Len(a)) : SubSeq(b, i + 1, i + Len(a)) = a

\* str.startswith
startswith(s, prefix) == Len(s) >= Len(prefix) /\ SubSeq(s, 1, Len(prefix)) = prefix

\* s.split("_")[1]: the characters between the first and the second underscore
RECURSIVE UpToUnderscore(_)
UpToUnderscore(s) ==
    IF s = <<>> \/ s[1] = "_" THEN <<>> ELSE <<s[1]>> \o UpToUnderscore(Tail(s))

SecondField(s) == UpToUnderscore(SubSeq(s, Len(UpToUnderscore(s)) + 2, Len(s)))

Digits == <<"0", "1", "2", "3", "4", "5", "6", "7", "8", "9">>

\* int() of a string of digits
RECURSIVE int(_)
int(s) ==
    IF s = <<>> THEN 0
    ELSE 10 * int(SubSeq(s, 1, Len(s) - 1))
         + (CHOOSE d \in 0..9 : Digits[d + 1] = s[Len(s)])

\* NUDGE_RULES; churn_score_range in hundredths, of the nudges their types
NUDGE_RULES ==
    <<
      [rule_id |-> <<"h", "i", "g", "h", "_", "r", "i", "s", "k", "_", "i", "n", "a", "c", "t", "i", "v", "e", "_", "u", "s", "e", "r">>,
       churn_score_range |-> <<70, 100>>,
       churn_reasons |-> <<<<"I", "n", "a", "c", "t", "i", "v", "e">>,
                          <<"N", "o", " ", "p", "u", "r", "c", "h", "a", "s", "e">>,
                          <<"H", "i", "g", "h", " ", "r", "i", "s", "k", " ", "f", "a", "c", "t", "o", "r">>>>,
       nudges |-> <<"Custom Message", "Discount Coupon", "Push Notification">>],
      [rule_id |-> <<"l", "o", "w", "_", "r", "i", "s", "k", "_", "e", "n", "g", "a", "g", "e", "m", "e", "n", "t">>,
       churn_score_range |-> <<0, 40>>,
       churn_reasons |-> <<>>,
       nudges |-> <<"Custom Message">>],
      [rule_id |-> <<"m", "e", "d", "i", "u", "m", "_", "r", "i", "s", "k", "_", "c", "a", "r", "t", "_", "a", "b", "a", "n", "d", "o", "n", "m", "e", "n", "t">>,
       churn_score_range |-> <<30, 60>>,
       churn_reasons |-> <<<<"c", "a", "r", "t">>,
                          <<"a", "b", "a", "n", "d", "o", "n">>>>,
       nudges |-> <<"Custom Message">>],
      [rule_id |-> <<"r", "u", "l", "e", "_", "1">>,
       churn_score_range |-> <<60, 80>>,
       churn_reasons |-> <<<<"I", "N", "A", "C", "T", "I", "V", "I", "T", "Y">>,
                          <<"D", "E", "L", "I", "V", "E", "R", "Y", "_", "I", "S", "S", "U", "E", "S">>>>,
       nudges |-> <<"Email">>],
      [rule_id |-> <<"r", "u", "l", "e", "_", "2">>,
       churn_score_range |-> <<80, 100>>,
       churn_reasons |-> <<<<"C", "A", "R", "T", "_", "A", "B", "A", "N", "D", "O", "N", "M", "E", "N", "T">>>>,
       nudges |-> <<"Custom Message", "Push Notification", "Discount Coupon">>],
      [rule_id |-> <<"r", "u", "l", "e", "_", "3">>,
       churn_score_range |-> <<70, 90>>,
       churn_reasons |-> <<<<"L", "O", "W", "_", "E", "N", "G", "A", "G", "E", "M", "E", "N", "T">>>>,
       nudges |-> <<"Email">>],
      [rule_id |-> <<"r", "u", "l", "e", "_", "4">>,
       churn_score_range |-> <<60, 75>>,
       churn_reasons |-> <<<<"P", "R", "I", "C", "E", "_", "S", "E", "N", "S", "I", "T", "I", "V", "I", "T", "Y">>>>,
       nudges |-> <<"Discount Coupon">>],
      [rule_id |-> <<"r", "u", "l", "e", "_", "5">>,
       churn_score_range |-> <<85, 100>>,
       churn_reasons |-> <<<<"P", "A", "Y", "M", "E", "N", "T", "_", "F", "A", "I", "L", "U", "R", "E">>>>,
       nudges |-> <<"Push Notification", "Email">>],
      [rule_id |-> <<"r", "u", "l", "e", "_", "6">>,
       churn_score_range |-> <<65, 80>>,
       churn_reasons |-> <<<<"P", "R", "O", "D", "U", "C", "T", "_", "A", "V", "A", "I", "L", "A", "B", "I", "L", "I", "T", "Y">>>>,
       nudges |-> <<"Push Notification">>],
      [rule_id |-> <<"r", "u", "l", "e", "_", "7">>,
       churn_score_range |-> <<70, 90>>,
       churn_reasons |-> <<<<"I", "N", "A", "C", "T", "I", "V", "I", "T", "Y">>>>,
       nudges |-> <<"Push Notification">>],
      [rule_id |-> <<"r", "u", "l", "e", "_", "8">>,
       churn_score_range |-> <<60, 80>>,
       churn_reasons |-> <<<<"C", "A", "R", "T", "_", "A", "B", "A", "N", "D", "O", "N", "M", "E", "N", "T">>,
                          <<"L", "O", "W", "_", "E", "N", "G", "A", "G", "E", "M", "E", "N", "T">>>>,
       nudges |-> <<"Custom Message", "Email", "Discount Coupon">>],
      [rule_id |-> <<"r", "u", "l", "e", "_", "9">>,
       churn_score_range |-> <<75, 95>>,
       churn_reasons |-> <<<<"D", "E", "L", "I", "V", "E", "R", "Y", "_", "I", "S", "S", "U", "E", "S">>,
                          <<"P", "R", "I", "C", "E", "_", "S", "E", "N", "S", "I", "T", "I", "V", "I", "T", "Y">>>>,
       nudges |-> <<"Push Notification">>],
      [rule_id |-> <<"r", "u", "l", "e", "_", "1", "0">>,
       churn_score_range |-> <<80, 100>>,
       churn_reasons |-> <<<<"P", "A", "Y", "M", "E", "N", "T", "_", "F", "A", "I", "L", "U", "R", "E">>,
                          <<"C", "A", "R", "T", "_", "A", "B", "A", "N", "D", "O", "N", "M", "E", "N", "T">>>>,
       nudges |-> <<"Push Notification", "Discount Coupon", "Email">>]>>

\* semantic_mappings of reasons_semantically_match: the synonym lists
semantic_mappings ==
    {{<<"i", "n", "a", "c", "t", "i", "v", "e">>,
       <<"i", "n", "a", "c", "t", "i", "v", "i", "t", "y">>,
       <<"n", "o", " ", "l", "o", "g", "i", "n">>,
       <<"n", "o", "t", " ", "a", "c", "t", "i", "v", "e">>},
     {<<"n", "o", " ", "p", "u", "r", "c", "h", "a", "s", "e">>,
       <<"n", "o", " ", "r", "e", "c", "e", "n", "t", " ", "p", "u", "r", "c", "h", "a", "s", "e">>,
       <<"p", "u", "r", "c", "h", "a", "s", "e">>,
       <<"b", "u", "y", "i", "n", "g">>},
     {<<"h", "i", "g", "h", " ", "r", "i", "s", "k">>,
       <<"r", "i", "s", "k", " ", "f", "a", "c", "t", "o", "r">>,
       <<"r", "i", "s", "k">>},
     {<<"c", "a", "r", "t", " ", "a", "b", "a", "n", "d", "o", "n">>,
       <<"a", "b", "a", "n", "d", "o", "n", "m", "e", "n", "t">>,
       <<"c", "a", "r", "t">>},
     {<<"e", "n", "g", "a", "g", "e", "m", "e", "n", "t">>,
       <<"l", "o", "w", " ", "e", "n", "g", "a", "g", "e", "m", "e", "n", "t">>,
       <<"n", "o", "t", " ", "e", "n", "g", "a", "g", "e", "d">>},
     {<<"d", "e", "l", "i", "v", "e", "r", "y">>,
       <<"s", "h", "i", "p", "p", "i", "n", "g">>,
       <<"f", "u", "l", "f", "i", "l", "l", "m", "e", "n", "t">>},
     {<<"p", "r", "i", "c", "e">>,
       <<"c", "o", "s", "t">>,
       <<"e", "x", "p", "e", "n", "s", "i", "v", "e">>,
       <<"p", "r", "i", "c", "i", "n", "g">>},
     {<<"p", "a", "y", "m", "e", "n", "t">>,
       <<"b", "i", "l", "l", "i", "n", "g">>,
       <<"c", "a", "r", "d">>,
       <<"t", "r", "a", "n", "s", "a", "c", "t", "i", "o", "n">>}}

reasons_semantically_match(rule_reason, churn_reason) ==
    \E synonyms \in semantic_mappings :
        /\ \E syn \in synonyms : In(syn, rule_reason)
        /\ \E syn \in synonyms : In(syn, churn_reason)

\* the test of the inner loops of find_matching_rule
ReasonMatches(rule_reason, churn_reason) ==
    LET rule_reason_lower == lower(rule_reason)
        churn_reason_lower == lower(churn_reason)
    IN  \/ In(rule_reason_lower, churn_reason_lower)
        \/ In(churn_reason_lower, rule_reason_lower)
        \/ reasons_semantically_match(rule_reason_lower, churn_reason_lower)

\* the sort key: the number of rule_N, 999 for every other rule
RuleKey(rule) ==
    IF startswith(rule.rule_id, <<"r", "u", "l", "e", "_">>)
    THEN int(SecondField(rule.rule_id))
    ELSE 999

InsertAscending(sorted, rule) ==
    LET behind == {i \in 1..Len(sorted) : RuleKey(sorted[i]) <= RuleKey(rule)}
        n == IF behind = {} THEN 0 ELSE CHOOSE i \in behind : \A j \in behind : j <= i
    IN  SubSeq(sorted, 1, n) \o <<rule>> \o SubSeq(sorted, n + 1, Len(sorted))

\* sorted(..., reverse=True) is stable: a rule goes behind every rule whose key is
\* not smaller
InsertDescending(sorted, rule) ==
    LET behind == {i \in 1..Len(sorted) : RuleKey(sorted[i]) >= RuleKey(rule)}
        n == IF behind = {} THEN 0 ELSE CHOOSE i \in behind : \A j \in behind : j <= i
    IN  SubSeq(sorted, 1, n) \o <<rule>> \o SubSeq(sorted, n + 1, Len(sorted))

RECURSIVE SortedFrom(_, _)
SortedFrom(i, sorted) ==
    IF i > Len(NUDGE_RULES) THEN sorted
    ELSE SortedFrom(i + 1, InsertDescending(sorted, NUDGE_RULES[i]))

sorted_rules == SortedFrom(1, <<>>)

\* the loop of find_matching_rule from rule number i of the sorted rules on; None
\* when it runs out of rules
RECURSIVE MatchFrom(_, _, _)
MatchFrom(i, churn_probability, churn_reasons) ==
    IF i > Len(sorted_rules) THEN <<>>
    ELSE LET rule == sorted_rules[i]
             score_min == rule.churn_score_range[1]
             score_max == rule.churn_score_range[2]
         IN  IF ~(score_min <= churn_probability /\ churn_probability <= score_max)
             THEN MatchFrom(i + 1, churn_probability, churn_reasons)
             ELSE IF rule.churn_reasons = <<>> THEN <<rule>>
             ELSE IF \E r \in 1..Len(rule.churn_reasons), c \in 1..Len(churn_reasons) :
                        ReasonMatches(rule.churn_reasons[r], churn_reasons[c])
                  THEN <<rule>>
             ELSE MatchFrom(i + 1, churn_probability, churn_reasons)

find_matching_rule(churn_probability, churn_reasons) ==
    MatchFrom(1, churn_probability, churn_reasons)

\* churn probabilities in hundredths, around the bounds of the score ranges
ScoreSamples ==
    {0, 29, 30, 40, 41, 59, 60, 61, 65, 70, 75, 76, 80, 81, 82, 85, 90, 91, 95, 96, 100}

\* churn reasons: reason codes, and sentences of the explainer (model_predictor.py:253-295)
ReasonSamples ==
    {<<"C", "A", "R", "T", "_", "A", "B", "A", "N", "D", "O", "N", "M", "E", "N", "T">>,
     <<"I", "N", "A", "C", "T", "I", "V", "I", "T", "Y">>,
     <<"P", "A", "Y", "M", "E", "N", "T", "_", "F", "A", "I", "L", "U", "R", "E">>,
     <<"P", "R", "O", "D", "U", "C", "T", "_", "A", "V", "A", "I", "L", "A", "B", "I", "L", "I", "T", "Y">>,
     <<"I", "n", "a", "c", "t", "i", "v", "e", " ", "f", "o", "r", " ", "e", "x", "t", "e", "n", "d", "e", "d", " ", "p", "e", "r", "i", "o", "d">>,
     <<"P", "o", "o", "r", " ", "c", "u", "s", "t", "o", "m", "e", "r", " ", "s", "a", "t", "i", "s", "f", "a", "c", "t", "i", "o", "n">>}

ReasonLists == UNION {[1..n -> ReasonSamples] : n \in 0..MaxReasons}

NoRuleCall == [churn_probability |-> 0, churn_reasons |-> <<>>, called |-> FALSE]

RuleIdle ==
    /\ rule_call = NoRuleCall
    /\ rule_matched = <<>>

\* a prediction arrives at the engine
RuleStart ==
    /\ rule_call \in [churn_probability : ScoreSamples, churn_reasons : ReasonLists,
                      called : {FALSE}]
    /\ rule_matched = <<>>

\* test_rules and trigger_nudges: find_matching_rule on the prediction
TestRules ==
    /\ ~rule_call.called
    /\ rule_call' = [rule_call EXCEPT !.called = TRUE]
    /\ rule_matched' = find_matching_rule(rule_call.churn_probability, rule_call.churn_reasons)
    /\ UNCHANGED notRule

RuleNext == TestRules

\* ---------------------------------------------------- recommendation reason
\* categories and brands of products and cart items
Categories == {"electronics", "clothing"}
Brands == {"acme", "zenith"}

\* similarity scores in hundredths and ratings in hundredths of a star, around the
\* thresholds 0.7 and 4.5
SimilaritySamples == {0, 69, 70, 71, 100}
RatingSamples == {0, 449, 450, 451, 500}

\* rank_and_discount_node, the reasons list of one product and reasons[0]; the brand
\* reason names the brand, which is left out
recommendation_reason(product, cart_categories, cart_brands) ==
    LET reasons ==
            (IF product.category \in cart_categories
             THEN <<"Similar to items in your cart">> ELSE <<>>)
            \o (IF product.brand \in cart_brands
                THEN <<"From a brand you like">> ELSE <<>>)
            \o (IF product.similarity_score > 70
                THEN <<"Highly relevant to your interests">> ELSE <<>>)
            \o (IF product.rating >= 450
                THEN <<"Top-rated by customers">> ELSE <<>>)
    IN  IF reasons = <<>> THEN "Recommended for you" ELSE reasons[1]

RankIdle ==
    /\ rank_product = [category |-> "electronics", brand |-> "acme", similarity_score |-> 0,
                       rating |-> 0, cart_categories |-> {}, cart_brands |-> {}]
    /\ rank_reason = ""

\* a priced product out of the vector search and a cart
RankStart ==
    /\ rank_product \in [category : Categories, brand : Brands,
                         similarity_score : SimilaritySamples, rating : RatingSamples,
                         cart_categories : SUBSET Categories, cart_brands : SUBSET Brands]
    /\ rank_reason = ""

\* rank_and_discount_node builds the RecommendedProduct
GiveReason ==
    /\ rank_reason = ""
    /\ rank_reason' = recommendation_reason(rank_product, rank_product.cart_categories,
                                            rank_product.cart_brands)
    /\ UNCHANGED rank_product
    /\ UNCHANGED notRank

RankNext == GiveReason

\* ------------------------------------------------- the shared nudge engine
\* nudge_engine = NudgeEngine() is one object of the process (nudge_engine.py:499); every
\* request awaits trigger_nudges on it. The process runs one event loop: the code between two
\* awaits that suspend is one step.
NudgeCallers == {"A", "B"}

ProbabilitySamples == {20, 50, 82, 95}

ChurnContexts ==
    [churn_reasons : {rs \in ReasonLists : Len(rs) <= 1}, churn_probability : ProbabilitySamples]

NoNudgeCall(ctx) ==
    [args |-> ctx, pc |-> "start", nudges |-> <<>>, locals |-> None,
     message_with |-> None, coupon_with |-> None, engine_then |-> None]

EngineIdle ==
    /\ current_churn = None
    /\ nudge_reqs = [r \in NudgeCallers |-> NoNudgeCall([churn_reasons |-> <<>>, churn_probability |-> 20])]

EngineStart ==
    /\ current_churn = None
    /\ nudge_reqs \in [NudgeCallers -> {NoNudgeCall(ctx) : ctx \in ChurnContexts}]

\* the churn context a remote request of execute_nudges is made with, were it read again
\* from the engine when the request is made
churn_context_read_again(locals, engine) == engine

\* the churn context a remote request of execute_nudges is made with: the local variables
\* churn_reasons and churn_probability, read from the engine at the start of execute_nudges
churn_context(locals, engine) == locals

\* trigger_nudges up to its first suspension: stores the churn context on the engine, finds
\* the rule, returns without nudges when none matches, else enters execute_nudges, which
\* reads the context back into locals and suspends in the custom message request
trigger_nudges(r) ==
    /\ nudge_reqs[r].pc = "start"
    /\ LET req == nudge_reqs[r]
           matching_rule == find_matching_rule(req.args.churn_probability, req.args.churn_reasons)
       IN  /\ current_churn' = Some(req.args)
           /\ nudge_reqs' = [nudge_reqs EXCEPT ![r] =
                  IF matching_rule = <<>>
                  THEN [req EXCEPT !.pc = "done"]
                  ELSE [req EXCEPT !.pc = "custom_message",
                                   !.nudges = matching_rule[1].nudges,
                                   !.locals = current_churn',
                                   !.message_with = churn_context(current_churn', current_churn')]]
    /\ UNCHANGED notEngine

\* the custom message request returns (or fails, which is logged); the loop over the nudges
\* goes on to the first Discount Coupon, whose assignment request suspends, or ends
execute_nudges(r) ==
    /\ nudge_reqs[r].pc = "custom_message"
    /\ LET req == nudge_reqs[r]
       IN  nudge_reqs' = [nudge_reqs EXCEPT ![r] =
               IF \E i \in 1..Len(req.nudges) : req.nudges[i] = "Discount Coupon"
               THEN [req EXCEPT !.pc = "assign_coupon",
                                !.coupon_with = churn_context(req.locals, current_churn),
                                !.engine_then = current_churn]
               ELSE [req EXCEPT !.pc = "done"]]
    /\ UNCHANGED <<current_churn, notEngine>>

\* the coupon assignment request returns; the remaining nudges need no request
assign_discount_coupon(r) ==
    /\ nudge_reqs[r].pc = "assign_coupon"
    /\ nudge_reqs' = [nudge_reqs EXCEPT ![r].pc = "done"]
    /\ UNCHANGED <<current_churn, notEngine>>

EngineNext ==
    \E r \in NudgeCallers : trigger_nudges(r) \/ execute_nudges(r) \/ assign_discount_coupon(r)

\* ------------------------------------------------------- logout (backend)
\* sessions of one user that log out, each once
Sessions == {"s1", "s2"}

NoLogout == [pc |-> "idle", found |-> FALSE, new_count |-> 0, status |-> 0]

LogoutIdle ==
    /\ logout_req = [s \in Sessions |-> NoLogout]
    /\ abandon_start = 0

\* realtime_data.get('abandon_count', 0)
AbandonCountIn(realtime_data) ==
    IF "abandon_count" \in DOMAIN realtime_data THEN realtime_data["abandon_count"] ELSE 0

\* the realtime record after cart-load ingested the cart (cart.py:271-289), with or
\* without an abandon_count from earlier logouts
CartRecords ==
    {WithMetadata([cart_no_buy |-> TRUE], 1, "realtime"),
     WithMetadata([cart_no_buy |-> TRUE, abandon_count |-> 1], 1, "realtime")}

\* the store holds the user's cart, written by the ingest path of the configuration
LogoutStart ==
    /\ logout_req = [s \in Sessions |-> NoLogout]
    /\ USE_AGENT_FLOW \in BOOLEAN
    /\ USE_LANGGRAPH_STORE \in BOOLEAN
    /\ client = TRUE
    /\ \E rec \in CartRecords :
          /\ abandon_start = AbandonCountIn(rec)
          /\ aerospike_bins = [u \in Users, f \in FamilySet |->
                                  IF f = "realtime" /\ ~UseStoreApi THEN rec ELSE EmptyMap]
          /\ store_items = [u \in Users, f \in FamilySet |->
                               IF f = "realtime" /\ UseStoreApi THEN rec ELSE EmptyMap]
    /\ now = 1
    /\ nIngest = 0
    /\ ingested = [u \in Users |-> <<>>]
    /\ lastIngest = NoCall
    /\ lastRetrieve = NoCall

\* logout_user up to its await: the synchronous client.get of the direct realtime record
\* (an exception leaves the defaults), the abandonment test and new_count
logout_user(s) ==
    \E u \in Users, getOk \in BOOLEAN :
        /\ logout_req[s].pc = "idle"
        /\ LET bins == IF getOk THEN aerospike_bins[u, "realtime"] ELSE EmptyMap
               cart_no_buy == "cart_no_buy" \in DOMAIN bins /\ bins["cart_no_buy"]
               current_count == AbandonCountIn(bins)
           IN  logout_req' = [logout_req EXCEPT ![s] =
                   IF cart_no_buy
                   THEN [pc |-> "posting", found |-> TRUE, new_count |-> current_count + 1,
                         status |-> 0]
                   ELSE [pc |-> "done", found |-> FALSE, new_count |-> 0, status |-> 0]]
        /\ UNCHANGED <<abandon_start, fsVars, notLogout>>

\* the logout's POST /ingest/realtime with abandon_count = new_count is handled by
\* store_features_in_aerospike (or does not arrive), and logout_user logs the answer
ingest_abandon_count(s) ==
    \E u \in Users, arrives, connectOk, getOk, putOk \in BOOLEAN :
        /\ logout_req[s].pc = "posting"
        /\ LET features == [abandon_count |-> logout_req[s].new_count]
               existing == IF UseStoreApi THEN store_items[u, "realtime"]
                           ELSE aerospike_bins[u, "realtime"]
               existing_features == IF getOk THEN StripMeta(existing) ELSE EmptyMap
               value == WithMetadata(MergedFeatures(existing_features, features), now + 1,
                                     "realtime")
               status == IF ~arrives THEN 0
                         ELSE IF UseStoreApi THEN (IF getOk /\ putOk THEN 200 ELSE 500)
                         ELSE IF ~client /\ ~connectOk THEN 503
                         ELSE IF putOk THEN 200 ELSE 500
           IN  /\ logout_req' = [logout_req EXCEPT ![s].pc = "done", ![s].status = status]
               /\ IF status = 200
                  THEN /\ now' = now + 1
                       /\ IF UseStoreApi
                          THEN /\ store_items' = [store_items EXCEPT
                                      ![u, "realtime"] = StorePut(existing, value)]
                               /\ UNCHANGED <<aerospike_bins, client>>
                          ELSE /\ aerospike_bins' = [aerospike_bins EXCEPT
                                      ![u, "realtime"] = AerospikePut(existing, value)]
                               /\ client' = TRUE
                               /\ UNCHANGED store_items
                  ELSE /\ client' = IF arrives /\ ~UseStoreApi /\ status = 500 THEN FALSE
                                    ELSE client
                       /\ UNCHANGED <<now, aerospike_bins, store_items>>
        /\ UNCHANGED <<abandon_start, USE_AGENT_FLOW, USE_LANGGRAPH_STORE, nIngest, ingested,
                       lastIngest, lastRetrieve, notLogout>>

LogoutNext ==
    \E s \in Sessions : logout_user(s) \/ ingest_abandon_count(s)

\* --------------------------------------------------------- specifications
\* each specification runs one subsystem and leaves the others idle
FeatureStoreInit == FSInit /\ ChurnIdle /\ PredictionIdle /\ CouponIdle /\ RecoIdle /\ CartIdle /\ ConcurrentIdle /\ RuntimeIdle /\ RuleIdle /\ RankIdle /\ EngineIdle /\ LogoutIdle

FeatureStoreSpec == FeatureStoreInit /\ [][FeatureStoreNext]_vars

ChurnSpecInit == ChurnInit /\ FSIdle /\ PredictionIdle /\ CouponIdle /\ RecoIdle /\ CartIdle /\ ConcurrentIdle /\ RuntimeIdle /\ RuleIdle /\ RankIdle /\ EngineIdle /\ LogoutIdle

ChurnSpec == ChurnSpecInit /\ [][ChurnNext]_vars

CouponInit == CouponStart /\ FSIdle /\ ChurnIdle /\ PredictionIdle /\ RecoIdle /\ CartIdle /\ ConcurrentIdle /\ RuntimeIdle /\ RuleIdle /\ RankIdle /\ EngineIdle /\ LogoutIdle

CouponSpec == CouponInit /\ [][CouponNext]_vars

PredictionSpecInit == PredictionInit /\ RecoIdle /\ CartIdle /\ ConcurrentIdle /\ RuntimeIdle /\ RuleIdle /\ RankIdle /\ EngineIdle /\ LogoutIdle

PredictionSpec == PredictionSpecInit /\ [][PredictionNext]_vars

RecoSpecInit == RecoInit /\ CartIdle /\ ConcurrentIdle /\ RuntimeIdle /\ RuleIdle /\ RankIdle /\ EngineIdle /\ LogoutIdle

RecoSpec == RecoSpecInit /\ [][RecoNext]_vars

CartLoadSpecInit == CartIdle /\ ChurnIdle /\ FSIdle /\ PredictionIdle /\ CouponIdle /\ RecoIdle /\ ConcurrentIdle /\ RuntimeIdle /\ RuleIdle /\ RankIdle /\ EngineIdle /\ LogoutIdle

CartLoadSpec == CartLoadSpecInit /\ [][CartNext]_vars

ConcurrentIngestSpecInit == FSInit /\ ConcurrentIdle /\ ChurnIdle /\ PredictionIdle /\ CouponIdle /\ RecoIdle /\ CartIdle /\ RuntimeIdle /\ RuleIdle /\ RankIdle /\ EngineIdle /\ LogoutIdle

ConcurrentIngestSpec == ConcurrentIngestSpecInit /\ [][ConcurrentNext]_vars

RetrievalSpec == FeatureStoreInit /\ [][RetrievalNext]_vars

RuntimeSpecInit == RuntimeIdle /\ ChurnIdle /\ FSIdle /\ PredictionIdle /\ CouponIdle /\ RecoIdle /\ CartIdle /\ ConcurrentIdle /\ RuleIdle /\ RankIdle /\ EngineIdle /\ LogoutIdle

RuntimeSpec == RuntimeSpecInit /\ [][RuntimeNext]_vars

\* the event loop keeps driving a started graph.ainvoke: a step of the run that stays
\* possible is taken
RuntimeLiveSpec ==
    /\ RuntimeSpec
    /\ WF_vars(PutCheckpoint)
    /\ WF_vars(RunNode)
    /\ WF_vars(AinvokeEnds)

RuleSpecInit == RuleStart /\ ChurnIdle /\ FSIdle /\ PredictionIdle /\ CouponIdle /\ RecoIdle /\ CartIdle /\ ConcurrentIdle /\ RuntimeIdle /\ RankIdle /\ EngineIdle /\ LogoutIdle

RuleSpec == RuleSpecInit /\ [][RuleNext]_vars

RankSpecInit == RankStart /\ ChurnIdle /\ FSIdle /\ PredictionIdle /\ CouponIdle /\ RecoIdle /\ CartIdle /\ ConcurrentIdle /\ RuntimeIdle /\ RuleIdle /\ EngineIdle /\ LogoutIdle

RankSpec == RankSpecInit /\ [][RankNext]_vars

\* ingests and prediction runs side by side
\* ingests, and prediction runs after them, in one behaviour of this specification
MaxWrites == 2
MaxReads == 1

ReadYourWritesNext ==
    \/ (nIngest < MaxWrites /\ Ingest)
    \/ (nRuns < MaxReads /\ RunAgentPrediction)
    \/ retrieve_features_node
    \/ predict_churn_node
    \/ decide_nudge_node
    \/ generate_nudge_node
    \/ send_nudge_node
    \/ error_handler_node
    \/ FinishRun

\* an empty store under every flag configuration, and a model that answers with a
\* high probability so that a run with features goes through every node
ReadYourWritesStart ==
    /\ FSInit
    /\ model_proba = 96
    /\ predictions = [n \in AbandonCounts |-> NoPrediction]

ReadYourWritesInit == ReadYourWritesStart /\ PredictionIdle /\ CouponIdle /\ RecoIdle /\ CartIdle /\ ConcurrentIdle /\ RuntimeIdle /\ RuleIdle /\ RankIdle /\ EngineIdle /\ LogoutIdle

ReadYourWritesSpec == ReadYourWritesInit /\ [][ReadYourWritesNext]_vars

EngineSpecInit == EngineStart /\ ChurnIdle /\ FSIdle /\ PredictionIdle /\ CouponIdle /\ RecoIdle /\ CartIdle /\ ConcurrentIdle /\ RuntimeIdle /\ RuleIdle /\ RankIdle /\ LogoutIdle

EngineSpec == EngineSpecInit /\ [][EngineNext]_vars

LogoutSpecInit == LogoutStart /\ ChurnIdle /\ PredictionIdle /\ CouponIdle /\ RecoIdle /\ CartIdle /\ ConcurrentIdle /\ RuntimeIdle /\ RuleIdle /\ RankIdle /\ EngineIdle

LogoutSpec == LogoutSpecInit /\ [][LogoutNext]_vars

\* ----------------------------------------------------------------- claims
\* C1: two successive successful ingests into one family of a user, then a
\* retrieval that read every family: the result holds every key of both
\* ingests (the later ingest's value where both name a key) and its
\* feature_freshness is the timestamp the later ingest wrote.
C1_MergeThenFreshness ==
    \A u \in Users :
        (/\ lastRetrieve.status = 200
         /\ lastRetrieve.user = u
         /\ lastRetrieve.complete
         /\ Len(ingested[u]) = 2
         /\ ingested[u][1].family = ingested[u][2].family)
        => LET expected == DictMerge(ingested[u][1].features, ingested[u][2].features)
           IN  /\ \A k \in DOMAIN expected :
                     /\ k \in DOMAIN lastRetrieve.features
                     /\ lastRetrieve.features[k] = expected[k]
               /\ lastRetrieve.freshness = ingested[u][2].timestamp

\* a retrieval after ingest {a: 1} then ingest {b: 2} into the same family, with
\* another family of the user written before them
C1_Witness ==
    \E u \in Users :
        /\ lastRetrieve.status = 200 /\ lastRetrieve.user = u /\ lastRetrieve.complete
        /\ Len(ingested[u]) = 2
        /\ ingested[u][1].family = ingested[u][2].family
        /\ DOMAIN ingested[u][1].features # {}
        /\ DOMAIN ingested[u][2].features # {}
        /\ DOMAIN ingested[u][1].features \cap DOMAIN ingested[u][2].features = {}
        /\ \E k \in DOMAIN lastRetrieve.features : k \notin FieldsOf(ingested[u][1].family)

C3_ProbabilityCapped ==
    \A n \in AbandonCounts :
        predictions[n] # NoPrediction =>
            /\ predictions[n].churn_probability >= 0
            /\ predictions[n].churn_probability <= ProbCap

\* C4: for feature maps differing only in abandon_count, n1 <= n2 in {0,1,2,3},
\* the probability returned for n1 is at most the one returned for n2.
C4_MonotoneBoost ==
    \A n1, n2 \in 0..3 :
        (/\ n1 <= n2
         /\ predictions[n1] # NoPrediction
         /\ predictions[n2] # NoPrediction)
        => predictions[n1].churn_probability <= predictions[n2].churn_probability

\* C5: in the prediction workflow, a run that ends with a failure recorded in the
\* state's error field has run error_handler and ends with completed = true.
C5_PredictionErrorHandled ==
    (node = "END" /\ state.error # None)
        => (\E i \in 1..Len(executed) : executed[i] = "error_handler") /\ state.completed

\* C6: generate_nudge and send_nudge run only in runs whose decide_nudge produced
\* should_nudge = true; a run whose decide_nudge produced should_nudge = false ends
\* right after decide_nudge and stores no nudge, coupon, user-coupon or message.
C6_RoutingFromDecision ==
    /\ (\E i \in 1..Len(executed) : executed[i] \in {"generate_nudge", "send_nudge"})
          => (state.nudge_decision # None /\ state.nudge_decision[1].should_nudge)
    /\ (state.nudge_decision # None /\ ~state.nudge_decision[1].should_nudge)
          => /\ node \in {"END", "idle"}
             /\ executed = <<"retrieve_features", "predict_churn", "decide_nudge">>
             /\ nRuns \notin (user_nudges \cup coupons \cup agent_user_coupons
                                \cup custom_user_messages)

C6_Witness ==
    /\ node = "END"
    /\ state.nudge_decision # None
    /\ ~state.nudge_decision[1].should_nudge
    /\ executed = <<"retrieve_features", "predict_churn", "decide_nudge">>
    /\ nRuns = 2
    /\ 1 \in user_nudges

\* C7: POST /predict for a user with no stored features, the store being reachable,
\* answers 404 in the manual flow and in the agent flow.
C7_NoFeaturesIs404 ==
    (response.status # 0 /\ response.no_features /\ response.store_up)
        => response.status = 404

\* C8: the user_coupons set holds at most one record with status available for each
\* (user_id, coupon_id), whatever assign operations were made.
C8_AtMostOneAvailable ==
    \A u \in Users, c \in CouponIds :
        Cardinality({r \in user_coupons :
                        r.user_id = u /\ r.coupon_id = c /\ r.status = AVAILABLE}) <= 1

\* C5: in the recommendations workflow, a run that ends with a failure recorded in
\* the state's error field has run error_handler and ends with completed = true.
C5_RecoErrorHandled ==
    (reco_node = "END" /\ reco_state.error # None)
        => /\ \E i \in 1..Len(reco_executed) : reco_executed[i] = "error_handler"
           /\ reco_state.completed

\* the tier midpoints the discount-tier law names for the scorer's segments
ClaimedTierPct == [low |-> 2, medium |-> 7, high |-> 17, critical |-> 25]

\* C9: every recommendation returned for a user the scorer put in segment low,
\* medium, high or critical carries that segment's tier midpoint (2, 7, 17, 25) as
\* discount_percentage and round(price * (1 - pct/100), 2) as discounted_price.
C9_DiscountTierLaw ==
    (reco_response.status = 200 /\ reco_response.churn_risk \in DOMAIN ClaimedTierPct)
        => \A i \in 1..Len(reco_response.recommendations) :
              LET r == reco_response.recommendations[i]
                  pct == ClaimedTierPct[reco_response.churn_risk]
              IN  /\ r.discount_percentage = pct
                  /\ r.discounted_price = RoundCents(r.price * (100 - pct))

\* C10: no recommendation of a response, generated or cached, has a product_id of
\* the cart given to the run that produced it.
C10_CartExcluded ==
    reco_response.status = 200
        => \A i \in 1..Len(reco_response.recommendations) :
              reco_response.recommendations[i].product_id \notin reco_response.cart

\* C11: a GET that follows a POST answered 200 for the user, with no other
\* recommendation run for the user in between, returns the list the POST returned,
\* in the same order, with source "cached"; and while that POST is the last run the
\* cache holds the list it returned.
C11_CacheRoundTrip ==
    \A u \in Users :
        last_generated[u] # None
            => /\ user_recommendations[u] # None
               /\ user_recommendations[u][1].recommendations = last_generated[u][1]
               /\ (reco_response.status = 200 /\ reco_response.source = "cached")
                     => reco_response.recommendations = last_generated[u][1]

C11_Witness ==
    /\ reco_response.status = 200
    /\ reco_response.source = "cached"
    /\ last_generated["u1"] # None
    /\ Len(last_generated["u1"][1]) = 2
    /\ nReco = 2

\* C12: POST and GET /recommendations/{user_id} answer 503 whenever the product
\* indexer has not run yet, and, with the agent flow on and the store created, do
\* not answer 503 once it has run, even when it indexed no product.
C12_UnavailableUntilIndexed ==
    reco_response.status # 0
        => /\ ~reco_response.indexer_ran => reco_response.status = 503
           /\ (reco_response.indexer_ran /\ USE_AGENT_FLOW /\ reco_store)
                 => reco_response.status # 503

\* C13: when on_cart_load has returned early because the prediction did not answer
\* within the wait, the prediction call it started is still running or has
\* finished; it was not cancelled.
C13_PredictionOutlivesTimeout ==
    cart_response.returned_early => prediction_task \in {"pending", "finished"}

\* C14: with ingests to the same (family, user_id) interleaving between their read
\* and their put, every stored record carries a timestamp and the feature_type of
\* its family, and every feature value in it was carried by some ingest.
C14_RecordAlwaysValid ==
    \A u \in Users, f \in FamilySet :
        LET record == StoredRecord(u, f)
        IN  record # EmptyMap
                => /\ MetaKeys \subseteq DOMAIN record
                   /\ record["feature_type"] = f
                   /\ record["timestamp"] \in 1..now
                   /\ \A k \in DOMAIN record \ MetaKeys : <<f, k, record[k]>> \in written

\* two interleaved ingests on the Store API path: a feature whose put succeeded is
\* no longer in the record
C14_Witness ==
    /\ UseStoreApi
    /\ \E f \in IngestFamilies :
        \E k \in FieldsOf(f) :
          /\ <<f, k>> \in completed
          /\ store_items["u1", f] # EmptyMap
          /\ k \notin DOMAIN store_items["u1", f]

\* C15: of two successive retrievals for a user that read every family, with no
\* ingest between them, the second returns the features and the feature_freshness
\* of the first, also for a user with no stored features; and a retrieval changes
\* no stored record.
C15_RetrievalIdempotent ==
    [][/\ (/\ lastRetrieve.status = 200 /\ lastRetrieve.complete
           /\ lastRetrieve'.status = 200 /\ lastRetrieve'.complete
           /\ lastRetrieve'.user = lastRetrieve.user)
          => /\ lastRetrieve'.features = lastRetrieve.features
             /\ lastRetrieve'.freshness = lastRetrieve.freshness
       /\ (lastRetrieve'.status = 200 /\ lastIngest' = lastIngest)
          => UNCHANGED <<aerospike_bins, store_items>>]_vars

\* C16: when the LLM returned an empty content for the message of a prediction
\* request, POST /predict still answers 200 with its prediction and no message is
\* stored for the request.
C16_PredictionSurvivesEmptyMessage ==
    response.message_failed
        => /\ response.status = 200
           /\ nRuns \notin custom_user_messages

C16_Witness ==
    /\ response.message_failed
    /\ response.flow = "manual"
    /\ response.status = 200
    /\ ~response.no_features

\* the nodes after which a graph reaches END
TerminalNodes == {"send_nudge", "error_handler", "decide_nudge", "store_recommendations"}

\* C17: a prediction run whose checkpointer could not be created, or whose
\* checkpoint write failed, still runs its nodes to the end of the graph and
\* returns its result; the failure does not fail the run
C17_CheckpointFailureTolerated ==
    (wf_result.workflow = "prediction" /\ wf_result.checkpoint_failed # "none") =>
        /\ ~wf_result.raised
        /\ wf_result.executed # <<>>
        /\ wf_result.executed[Len(wf_result.executed)] \in TerminalNodes

\* C18: in a run started by an endpoint, a node runs only after the snapshot of
\* its step is in the KV store under (thread_id, checkpoint_ns, step)
C18_SnapshotBeforeEachNode ==
    (wf_run.caller = "endpoint" /\ wf_run.phase = "node") =>
        <<wf_run.config.thread_id, wf_run.config.checkpoint_ns, Len(wf_run.executed)>>
            \in checkpoints

\* C19: every nudge reported as executed, by execute_nudges or by send_nudge_tool,
\* has its record in the user_nudges set of the store
C19_ExecutedNudgeRecorded ==
    \A r \in nudge_reports : r.nudge_id \in user_nudges

\* C20: a send reported with coupon_created = true has both its coupon record and
\* its user-coupon link in the store
C20_CouponAndLinkTogether ==
    \A r \in nudge_reports :
        (r.path = "workflow" /\ r.coupon_created) =>
            /\ r.nudge_id \in coupons
            /\ r.nudge_id \in agent_user_coupons

Passes(rule, churn_probability, churn_reasons) ==
    /\ rule.churn_score_range[1] <= churn_probability
    /\ churn_probability <= rule.churn_score_range[2]
    /\ \/ rule.churn_reasons = <<>>
       \/ \E r \in 1..Len(rule.churn_reasons), c \in 1..Len(churn_reasons) :
             ReasonMatches(rule.churn_reasons[r], churn_reasons[c])

\* the priority order: a rule that is not a rule_N before every rule_N, rule_N before
\* rule_M when N > M
Numbered(rule) == startswith(rule.rule_id, <<"r", "u", "l", "e", "_">>)

Outranks(a, b) ==
    \/ ~Numbered(a) /\ Numbered(b)
    \/ Numbered(a) /\ Numbered(b)
       /\ int(SecondField(a.rule_id)) > int(SecondField(b.rule_id))

\* C22: find_matching_rule returns a rule that passes and that no passing rule
\* outranks; it returns None only when no rule passes; for 0.82 and CART_ABANDONMENT
\* the rule has the range [0.8, 1.0] and lists CART_ABANDONMENT
C22_FirstMatchingRuleWins ==
    rule_call.called =>
        LET p == rule_call.churn_probability
            reasons == rule_call.churn_reasons
            rules == {NUDGE_RULES[i] : i \in 1..Len(NUDGE_RULES)}
        IN  /\ rule_matched = <<>> => \A rule \in rules : ~Passes(rule, p, reasons)
            /\ rule_matched # <<>> =>
                  /\ rule_matched[1] \in rules
                  /\ Passes(rule_matched[1], p, reasons)
                  /\ \A rule \in rules :
                        Passes(rule, p, reasons) => ~Outranks(rule, rule_matched[1])
            /\ (p = 82 /\ reasons = <<<<"C", "A", "R", "T", "_", "A", "B", "A", "N", "D", "O", "N", "M", "E", "N", "T">>>>) =>
                  /\ rule_matched # <<>>
                  /\ rule_matched[1].churn_score_range = <<80, 100>>
                  /\ \E r \in 1..Len(rule_matched[1].churn_reasons) :
                        rule_matched[1].churn_reasons[r] = <<"C", "A", "R", "T", "_", "A", "B", "A", "N", "D", "O", "N", "M", "E", "N", "T">>

\* the call for 0.82 and CART_ABANDONMENT was made and returned a rule
C22_Witness ==
    /\ rule_call.called
    /\ rule_call.churn_probability = 82
    /\ rule_call.churn_reasons = <<<<"C", "A", "R", "T", "_", "A", "B", "A", "N", "D", "O", "N", "M", "E", "N", "T">>>>
    /\ rule_matched # <<>>

\* C23: the reason of a recommendation is the first that applies of: the category is
\* in the cart, the brand is in the cart, similarity >= 0.7, rating >= 4.5, and
\* "Recommended for you" when none does
C23_ReasonPriority ==
    rank_reason # "" =>
        rank_reason =
            IF rank_product.category \in rank_product.cart_categories
            THEN "Similar to items in your cart"
            ELSE IF rank_product.brand \in rank_product.cart_brands
            THEN "From a brand you like"
            ELSE IF rank_product.similarity_score >= 70
            THEN "Highly relevant to your interests"
            ELSE IF rank_product.rating >= 450
            THEN "Top-rated by customers"
            ELSE "Recommended for you"

\* C24: with the agent flow on, POST /predict for a user with stored features
\* answers 200
C24_AgentFlowAnswers ==
    (response.status # 0 /\ response.flow = "agent" /\ ~response.no_features)
        => response.status = 200

\* the record the ingest path of the configuration writes for a user and a family
WrittenRecord(u, f) == IF UseStoreApi THEN store_items[u, f] ELSE aerospike_bins[u, f]

\* the features of the written records, family by family, but for the family skip
RECURSIVE WrittenFeatures(_, _, _, _)
WrittenFeatures(u, i, skip, all_features) ==
    IF i > Len(FEATURE_TYPES) THEN all_features
    ELSE IF FEATURE_TYPES[i] = skip THEN WrittenFeatures(u, i + 1, skip, all_features)
    ELSE WrittenFeatures(u, i + 1, skip,
                         DictMerge(all_features, StripMeta(WrittenRecord(u, FEATURE_TYPES[i]))))

\* C25: in every flag configuration the retrieve step of a prediction run reads the
\* features the ingests wrote: what it returns without an error is made of the
\* written records of the user, all of them or all but one family whose read failed
C25_ReadYourWrites ==
    [][(node = "retrieve_features" /\ node' # "retrieve_features" /\ state'.error = None)
          => \E u \in Users : \E skip \in FamilySet \cup {"none"} :
                state'.user_features = WrittenFeatures(u, 1, skip, EmptyMap)]_vars

\* C26: when predictions for two users run concurrently through the shared nudge engine,
\* the churn reasons and probability a call uses to request its custom message and to select
\* its coupon are those of its own prediction
C26_OwnChurnContext ==
    \A r \in NudgeCallers :
        /\ nudge_reqs[r].message_with # None => nudge_reqs[r].message_with[1] = nudge_reqs[r].args
        /\ nudge_reqs[r].coupon_with # None => nudge_reqs[r].coupon_with[1] = nudge_reqs[r].args

\* a call selected its coupon while the engine held the other call's, different, context
C26_Witness ==
    \E r \in NudgeCallers :
        /\ nudge_reqs[r].coupon_with = Some(nudge_reqs[r].args)
        /\ nudge_reqs[r].engine_then # None
        /\ nudge_reqs[r].engine_then[1] # nudge_reqs[r].args

\* C27: each workflow run has its own thread id: a run with a checkpointer starts on
\* a thread that holds no checkpoint, so it neither resumes from nor writes among the
\* checkpoints of an earlier run of the user
C27_OwnThreadId ==
    (wf_run.phase = "boundary" /\ wf_run.executed = <<>>) =>
        \A c \in checkpoints : c[1] # wf_run.config.thread_id

\* C28: a prediction workflow run that reaches END without an error ends with
\* completed = true (reported as workflow_completed), also when decide_nudge chose
\* not to nudge
C28_CompletedAtEnd ==
    (node = "END" /\ state.error = None) => state.completed

\* the abandon_count of the user's realtime record, where the ingest path keeps it
StoredAbandonCount(u) == AbandonCountIn(WrittenRecord(u, "realtime"))

\* C29: each logout that finds an abandoned cart raises the stored abandon_count by
\* exactly one: with no logout in progress, the count is its initial value plus the
\* number of logouts that found a cart and whose ingest was answered 200, whether the
\* logouts followed each other or overlapped, in every storage configuration
C29_AbandonCountExact ==
    (\A s \in Sessions : logout_req[s].pc # "posting") =>
        \A u \in Users :
            StoredAbandonCount(u) =
                abandon_start
                + Cardinality({s \in Sessions : logout_req[s].found /\ logout_req[s].status = 200})

\* the nodes of a graph in the order create_*_graph adds them
DeclaredOrder(workflow) ==
    IF workflow = "prediction"
    THEN <<"retrieve_features", "predict_churn", "decide_nudge", "generate_nudge",
           "send_nudge", "error_handler">>
    ELSE <<"get_cart", "get_features", "estimate_churn", "vector_search", "rank_discount",
           "store_recommendations", "error_handler">>

PositionIn(order, n) == CHOOSE i \in 1..Len(order) : order[i] = n

\* the executed nodes follow the declared order, which leaves no node executed twice
InDeclaredOrder(workflow, executed_nodes) ==
    \A i, j \in 1..Len(executed_nodes) :
        i < j => PositionIn(DeclaredOrder(workflow), executed_nodes[i])
                     < PositionIn(DeclaredOrder(workflow), executed_nodes[j])

====
